---------------------------- MODULE Spec2Model ----------------------------
(***************************************************************************)
(* Verification model of the city ingestion pipeline (scripts/ingestCity,  *)
(* scripts/lib/rateLimiter, scripts/lib/googlePlaces, scripts/lib/         *)
(* vibeScorer).                                                            *)
(*                                                                         *)
(* The specifications of this module share its variables:                  *)
(*   SpecClassify  isRetryableError applied to bounded error values        *)
(*   SpecRetry     withRetry run step by step on a failing operation       *)
(*   SpecLimiter   RateLimiter.acquire / refill against a millisecond clock*)
(*   Spec          the orchestrator (main / processCell) over a store      *)
(*   SpecDry       a dry run followed by the same run without the flag     *)
(*   SpecSkip      runs started with --skip on the command line            *)
(*   SpecParse     parseVibeScores applied to one classifier output        *)
(*   SpecAggregate aggregateReviews applied to one list of place details   *)
(*   SpecRank      rankVenues applied to one list of venues                *)
(*   SpecBatch     one run to its end, every request free to fail          *)
(* Strings are modelled as sequences of words; token counts are kept in    *)
(* thousandths of a token so that elapsed * refillRate is exact.           *)
(***************************************************************************)
EXTENDS Integers, Sequences, FiniteSets, TLC

VARIABLES
  \* ---- isRetryableError applied to one error value
  cErr, cVerdict,
  \* ---- withRetry
  rPc, caller, rOpts, attempt, calls, errLog, waits, retryLog, rResult,
  \* ---- RateLimiter
  callers, maxTokens, tokens, lastRefill, now, lPc, wakeAt, lastAcq, acquired,
  \* ---- the store (Supabase tables venues and cell_vibes)
  venues, cellVibes,
  \* ---- main(): one run of the ingestion script
  pc, runNo, argv, options, cells, processed, failedCells, detailsCache,
  \* ---- processCell(): the locals of the cell being processed
  cpc, typeIdx, allPlaces, rankedVenues, topVenues, detIdx, placeDetails,
  nullDetails, detailsAsked, pendingRow,
  \* ---- history of the current run, read by the properties only
  vibesAtStart, attemptLog, touched, inserted, venuesFailed, searchThrew, centroidBad, detailCalls, detailOks,
  callsAfterOk, cacheHits, slept, faults,
  venuesAtStart, fatalCause, callLog, prevLog, lostScore, lookupFailed,
  \* ---- the external requests sent in the current run (counted in SpecBatch)
  requests, slots,
  \* ---- parseVibeScores applied to one classifier output
  pRaw, pText, pOut,
  \* ---- aggregateReviews applied to one list of place details
  aIn, aOut,
  \* ---- rankVenues applied to one list of venues
  rankIn, rankOut

classifyVars == <<cErr, cVerdict>>
retryVars == <<rPc, caller, rOpts, attempt, calls, errLog, waits, retryLog, rResult>>
limiterVars ==
  <<callers, maxTokens, tokens, lastRefill, now, lPc, wakeAt, lastAcq, acquired>>
storeVars == <<venues, cellVibes>>
runVars ==
  <<pc, runNo, argv, options, cells, processed, failedCells, detailsCache>>
cellVars ==
  <<cpc, typeIdx, allPlaces, rankedVenues, topVenues, detIdx, placeDetails,
    nullDetails, detailsAsked, pendingRow>>
historyVars ==
  <<vibesAtStart, attemptLog, touched, inserted, venuesFailed, searchThrew, centroidBad, detailCalls, detailOks,
    callsAfterOk, cacheHits, slept, faults, venuesAtStart, fatalCause, callLog,
    prevLog, lostScore, lookupFailed, requests, slots>>
pipelineVars == <<storeVars, runVars, cellVars, historyVars>>
parseVars == <<pRaw, pText, pOut>>
aggVars == <<aIn, aOut>>
rankVars == <<rankIn, rankOut>>
fnVars == <<parseVars, aggVars, rankVars>>
vars == <<classifyVars, retryVars, limiterVars, pipelineVars, fnVars>>

None == "none"
NoStatus == -1

Min(a, b) == IF a <= b THEN a ELSE b

(***************************************************************************)
(* Bounds of the model.                                                    *)
(***************************************************************************)
MaxRetriesBound == 3
MaxBodyLen == 2
MaxAcquires == 10
MaxTime == 700
MaxRuns == 2
NumCells == 3
NumTypes == 2
MaxFaults == 1

(***************************************************************************)
(* config.ts                                                               *)
(***************************************************************************)
RATE_LIMITS ==
  [googlePlaces |-> [requestsPerSecond |-> 8],
   openai |-> [requestsPerSecond |-> 3],
   betweenCells |-> [delayMs |-> 500]]

RETRY_CONFIG ==
  [maxRetries |-> 3, initialDelayMs |-> 1000, maxDelayMs |-> 10000,
   retryableStatusCodes |-> {429, 500, 503}]


(***************************************************************************)
(* config.ts and the upstream data of the pipeline.  The catalog and the   *)
(* classifier answer the same request with the same data every time; only  *)
(* failures vary.                                                          *)
(***************************************************************************)
MIN_REVIEW_COUNT == 10
TOP_VENUES_PER_CELL == 5
MAX_CHARS == 8000
LLM_MODEL == "gpt-4.1-mini"
VIBE_DIMENSIONS ==
  <<"lively", "social", "upscale", "casual", "trendy", "local", "photogenic">>

\* PLACE_TYPES, cut to the first NumTypes categories
PLACE_TYPES == 1..NumTypes

\* get_grid_centroids: the cells of the city, in the order the store returns them
AreaCells == [i \in 1..NumCells |-> i]

\* A second city of the store, with one cell dense with venues, one cell
\* whose only venue has one very long review, and one cell whose only venue
\* has blank reviews
DenseCity == "manhattan"
DenseCell == NumCells + 1
LongCell == DenseCell + 1
BlankCell == LongCell + 1

\* grid_cells: the cells of the two cities
GridCells == 1..BlankCell

\* get_grid_centroids(target_city_id)
CityCells(slug) ==
  IF slug = DenseCity THEN <<DenseCell, LongCell, BlankCell>> ELSE AreaCells

\* GooglePlace: rating in tenths (0 when missing), userRatingCount (0 when missing)
Place ==
  [A |-> [id |-> "A", rating |-> 10, userRatingCount |-> 100],
   B |-> [id |-> "B", rating |-> 50, userRatingCount |-> 50],
   C |-> [id |-> "C", rating |-> 45, userRatingCount |-> 5],
   D |-> [id |-> "D", rating |-> 40, userRatingCount |-> 20],
   E |-> [id |-> "E", rating |-> 30, userRatingCount |-> 90],
   F |-> [id |-> "F", rating |-> 50, userRatingCount |-> 30],
   G |-> [id |-> "G", rating |-> 20, userRatingCount |-> 80],
   H |-> [id |-> "H", rating |-> 45, userRatingCount |-> 12],
   I |-> [id |-> "I", rating |-> 35, userRatingCount |-> 60],
   J |-> [id |-> "J", rating |-> 50, userRatingCount |-> 5],
   K |-> [id |-> "K", rating |-> 40, userRatingCount |-> 15],
   L |-> [id |-> "L", rating |-> 30, userRatingCount |-> 11]]

PlaceIds == DOMAIN Place

\* The nearby-search answer for a cell and a place type: cell 1 holds A, B and
\* the little-reviewed C (B under both types); cell 2 overlaps cell 1 in B;
\* cell 3 holds only C; any further cell is over water and holds no place.
\* The dense cell holds D to J, six of them with ten ratings or more, E under
\* both types; the long cell holds K and the blank cell L.
NearbyPlaces(cell, placeType) ==
  IF cell = DenseCell
  THEN (IF placeType = 1 THEN <<"D", "E", "F", "J">>
        ELSE IF placeType = 2 THEN <<"G", "H", "I", "E">> ELSE <<>>)
  ELSE IF cell = LongCell
  THEN (IF placeType = 1 THEN <<"K">> ELSE <<>>)
  ELSE IF cell = BlankCell
  THEN (IF placeType = 1 THEN <<"L">> ELSE <<>>)
  ELSE IF cell = 1
  THEN (IF placeType = 1 THEN <<"A", "B">>
        ELSE IF placeType = 2 THEN <<"B", "C">> ELSE <<>>)
  ELSE IF cell = 2
       THEN (IF placeType = 1 THEN <<"B">> ELSE <<>>)
       ELSE IF cell = 3
            THEN (IF placeType = 1 THEN <<"C">> ELSE <<>>)
            ELSE <<>>

\* GooglePlaceDetails.reviews: the trimmed length of each review text (0 for
\* a missing or blank text)
Reviews ==
  [A |-> <<3000, 0, 6000>>, B |-> <<4000>>, C |-> <<>>,
   D |-> <<100>>, E |-> <<200>>, F |-> <<>>, G |-> <<300>>, H |-> <<400>>,
   I |-> <<0>>, J |-> <<500>>, K |-> <<7999>>, L |-> <<0, 0>>]

(***************************************************************************)
(* Pure functions of googlePlaces.ts and vibeScorer.ts                     *)
(***************************************************************************)
\* filterQualifiedVenues(venues, minReviewCount), on place ids:
\* venues.filter((v) => (v.userRatingCount || 0) >= minReviewCount)
RECURSIVE filterQualifiedVenues(_, _)
filterQualifiedVenues(ids, minReviewCount) ==
  IF ids = <<>> THEN <<>>
  ELSE (IF Place[Head(ids)].userRatingCount >= minReviewCount
        THEN <<Head(ids)>> ELSE <<>>)
       \o filterQualifiedVenues(Tail(ids), minReviewCount)

\* A rating or rating count the catalog left out (the optional fields of
\* GooglePlace)
Absent == -1

\* Venues given to rankVenues when the function is checked on its own: V1 and
\* V5 are rated 5 by one user, V2 is rated 1 by a hundred, V3 has neither
\* field, V4 has zeros, V6 has a count and no rating
TestVenues ==
  [V1 |-> [id |-> "V1", rating |-> 50, userRatingCount |-> 1],
   V2 |-> [id |-> "V2", rating |-> 10, userRatingCount |-> 100],
   V3 |-> [id |-> "V3", rating |-> Absent, userRatingCount |-> Absent],
   V4 |-> [id |-> "V4", rating |-> 0, userRatingCount |-> 0],
   V5 |-> [id |-> "V5", rating |-> 50, userRatingCount |-> 1],
   V6 |-> [id |-> "V6", rating |-> Absent, userRatingCount |-> 100]]

\* The GooglePlace with the given id
Venue(v) == IF v \in DOMAIN TestVenues THEN TestVenues[v] ELSE Place[v]

\* (x || 0) on an optional number
OrZero(x) == IF x = Absent THEN 0 ELSE x

\* rankVenues' score, times 100: (userRatingCount || 0) * 0.7 +
\* (rating || 0) * 0.3
RankScore(v) ==
  OrZero(Venue(v).userRatingCount) * 70 + OrZero(Venue(v).rating) * 3

\* The sort placing a venue before the venues of equal score, used to test
\* C22
RECURSIVE InsertRanked_TiesFirst(_, _)
InsertRanked_TiesFirst(v, sorted) ==
  IF sorted = <<>> THEN <<v>>
  ELSE IF RankScore(Head(sorted)) > RankScore(v)
       THEN <<Head(sorted)>> \o InsertRanked_TiesFirst(v, Tail(sorted))
       ELSE <<v>> \o sorted

\* Array.prototype.sort with (a, b) => scoreB - scoreA: a stable insertion
RECURSIVE InsertRanked(_, _)
InsertRanked(v, sorted) ==
  IF sorted = <<>> THEN <<v>>
  ELSE IF RankScore(Head(sorted)) >= RankScore(v)
       THEN <<Head(sorted)>> \o InsertRanked(v, Tail(sorted))
       ELSE <<v>> \o sorted

RECURSIVE rankVenues(_)
rankVenues(ids) ==
  IF ids = <<>> THEN <<>>
  ELSE InsertRanked(ids[Len(ids)], rankVenues(SubSeq(ids, 1, Len(ids) - 1)))

\* Array.prototype.slice(0, n)
Slice(q, n) == SubSeq(q, 1, Min(n, Len(q)))

\* line 262 without the slice, used to test C28
TopVenues_All(ranked) == ranked

\* processCell, line 262: rankedVenues.slice(0, TOP_VENUES_PER_CELL)
TopVenues(ranked) == Slice(ranked, TOP_VENUES_PER_CELL)

(***************************************************************************)
(* Review texts (review.text?.text).  A string is described by what        *)
(* trim() and length read of it: its leading whitespace, its body (what    *)
(* trim() keeps) and its trailing whitespace, in characters.               *)
(***************************************************************************)
Undefined == [defined |-> FALSE, lead |-> 0, body |-> 0, trail |-> 0]
Str(lead, body, trail) ==
  [defined |-> TRUE, lead |-> lead, body |-> body, trail |-> trail]

\* String.prototype.length and String.prototype.trim
Length(s) == s.lead + s.body + s.trail
trim(s) == Str(0, s.body, 0)

\* A value in a condition: undefined and the empty string are falsy
Truthy(s) == s.defined /\ Length(s) > 0

\* GooglePlaceDetails of a place: with a reviews array, or without the field
WithReviews(reviews) == [hasReviews |-> TRUE, reviews |-> reviews]
WithoutReviews == [hasReviews |-> FALSE, reviews |-> <<>>]

\* The details record getPlaceDetails returns for each place id of a list
DetailsOf(ids) ==
  [i \in 1..Len(ids) |->
     WithReviews([j \in 1..Len(Reviews[ids[i]]) |->
                    IF Reviews[ids[i]][j] = 0 THEN Undefined
                    ELSE Str(0, Reviews[ids[i]][j], 0)])]

\* aggregateReviews, lines 122-128: the trimmed texts pushed for one place
RECURSIVE NonEmptyTexts(_)
NonEmptyTexts(reviews) ==
  IF reviews = <<>> THEN <<>>
  ELSE (IF Truthy(Head(reviews)) /\ Truthy(trim(Head(reviews)))
        THEN <<trim(Head(reviews))>> ELSE <<>>)
       \o NonEmptyTexts(Tail(reviews))

\* aggregateReviews, lines 116-129: reviewTexts over all the places; a place
\* without reviews is skipped (line 120)
RECURSIVE ReviewTexts(_)
ReviewTexts(details) ==
  IF details = <<>> THEN <<>>
  ELSE (IF ~Head(details).hasReviews THEN <<>>
        ELSE NonEmptyTexts(Head(details).reviews))
       \o ReviewTexts(Tail(details))

\* The string aggregated is the sequence of the texts appended to it, each
\* followed by '\n\n': its length
RECURSIVE AggregatedLength(_)
AggregatedLength(parts) ==
  IF parts = <<>> THEN 0
  ELSE Length(Head(parts)) + 2 + AggregatedLength(Tail(parts))

\* The loop skipping a text that does not fit and going on, used to test C21
OnBudgetExceeded_Continue == "continue"

\* aggregateReviews, lines 137-139: the loop ends at the first text that
\* does not fit
OnBudgetExceeded == "break"

\* aggregateReviews, lines 134-141: aggregated after the loop
RECURSIVE Aggregated(_, _)
Aggregated(texts, parts) ==
  IF texts = <<>> THEN parts
  ELSE IF AggregatedLength(parts) + Length(Head(texts)) + 2 > MAX_CHARS
       THEN (IF OnBudgetExceeded = "break" THEN parts
             ELSE Aggregated(Tail(texts), parts))
       ELSE Aggregated(Tail(texts), Append(parts, Head(texts)))

\* aggregateReviews, lines 113-147: {text: aggregated.trim(), count:
\* totalCount}.  totalCount is incremented with every push to reviewTexts;
\* trim() takes the whitespace before the first text and the '\n\n' after the
\* last one.  parts are the texts of the returned string, textLen its length.
aggregateReviews(details) ==
  LET texts == ReviewTexts(details)
      parts == Aggregated(texts, <<>>)
  IN [parts |-> parts,
      textLen |-> IF parts = <<>> THEN 0
                  ELSE AggregatedLength(parts) - parts[1].lead - 2,
      count |-> Len(texts)]

\* The places the searches of the first city return
CityPlaceIds ==
  UNION {{NearbyPlaces(c, t)[i] : i \in 1..Len(NearbyPlaces(c, t))} :
           c \in 1..NumCells, t \in PLACE_TYPES}

\* The lists of places processCell can hold in placeDetails in the first
\* city: different places, at most TOP_VENUES_PER_CELL of them
PlaceDetailsLists ==
  UNION {{q \in [1..n -> CityPlaceIds] : \A i, j \in 1..n : q[i] = q[j] => i = j} :
           n \in 0..Min(TOP_VENUES_PER_CELL, Cardinality(CityPlaceIds))}

\* aggregateReviews on the details of each list of a set, as a table
RECURSIVE AggregateOf(_)
AggregateOf(lists) ==
  IF lists = {} THEN <<>>
  ELSE LET ids == CHOOSE q \in lists : TRUE
       IN (ids :> aggregateReviews(DetailsOf(ids))) @@ AggregateOf(lists \ {ids})

ReviewsAggregate == AggregateOf(PlaceDetailsLists)

\* aggregateReviews(placeDetails) for the details of a list of places, read
\* from the table where it has the list
ReviewsOf(ids) ==
  IF ids \in DOMAIN ReviewsAggregate THEN ReviewsAggregate[ids]
  ELSE aggregateReviews(DetailsOf(ids))

Null == "null"

\* One dimension of VibeScores (number | null): the empty sequence for null,
\* the one-element sequence of the number, held in hundredths, otherwise
NullScore == <<>>
ScoreOf(hundredths) == <<hundredths>>

\* emptyVibeScores()
emptyVibeScores == [d \in 1..Len(VIBE_DIMENSIONS) |-> NullScore]

(***************************************************************************)
(* The classifier's output text and parseVibeScores.  A text is described  *)
(* by what the parser reads of it: whether it holds a `{ ... }` span (the  *)
(* match of /\{[\s\S]*\}/), whether that span is valid JSON, and the value   *)
(* the parsed object has under each dimension.  A JSON value is its typeof *)
(* and, for a number, its magnitude in thousandths; a missing key reads as *)
(* undefined, JSON null as an object.                                      *)
(***************************************************************************)
JsonNumber(thousandths) == [type |-> "number", value |-> thousandths]
JsonOther(type) == [type |-> type, value |-> 0]

NoFields == [d \in 1..Len(VIBE_DIMENSIONS) |-> JsonOther("undefined")]

\* A text without any brace; a text whose braces do not hold valid JSON; a
\* text holding a JSON object, possibly inside prose or a code fence
PlainText == [braces |-> FALSE, wellFormed |-> FALSE, fields |-> NoFields]
BrokenJson == [braces |-> TRUE, wellFormed |-> FALSE, fields |-> NoFields]
JsonObject(fields) == [braces |-> TRUE, wellFormed |-> TRUE, fields |-> fields]

\* parseVibeScores without the range test, used to test C20
AcceptValue_AnyNumber(v) == v.type = "number"

\* parseVibeScores, line 95: typeof value === 'number' && value >= 0 &&
\* value <= 1
AcceptValue(v) == v.type = "number" /\ v.value >= 0 /\ v.value <= 1000

\* parseVibeScores, line 96: Math.round(value * 100) / 100, from thousandths
\* to hundredths (halves round up; binary floating point is not modelled)
RoundScore(thousandths) == (thousandths + 5) \div 10

\* parseVibeScores, lines 93-98: one round of the loop over VIBE_DIMENSIONS
ParseDimension(v) ==
  IF AcceptValue(v) THEN ScoreOf(RoundScore(v.value)) ELSE NullScore

\* parseVibeScores without its try/catch, used to test C19
CatchesParseError_No == FALSE

\* parseVibeScores, lines 82 and 101-105: JSON.parse runs inside try, and the
\* catch returns the scores
CatchesParseError == TRUE

\* parseVibeScores, lines 70-106: threw tells whether an exception leaves the
\* function, scores is what it returns otherwise
parseVibeScores(text) ==
  IF ~text.braces
  THEN [threw |-> FALSE, scores |-> emptyVibeScores]
  ELSE IF ~text.wellFormed
       THEN [threw |-> ~CatchesParseError, scores |-> emptyVibeScores]
       ELSE [threw |-> FALSE,
             scores |-> [d \in 1..Len(VIBE_DIMENSIONS) |->
                           ParseDimension(text.fields[d])]]

\* response.output_text for a prompt of textLen characters: the classifier
\* answers the same text alike.  The one-venue text gets an answer cut off
\* in the middle of the object; the other texts get an object with a
\* fraction, an out-of-range 2, a string, a missing key, a value that rounds
\* up to 1, and the two ends of the range.
LlmOutput(textLen) ==
  IF textLen = 4000 THEN BrokenJson
  ELSE JsonObject(
         [d \in 1..Len(VIBE_DIMENSIONS) |->
            CASE d = 1 -> JsonNumber(504)
              [] d = 2 -> JsonNumber(2000)
              [] d = 3 -> JsonOther("string")
              [] d = 4 -> JsonOther("undefined")
              [] d = 5 -> JsonNumber(995)
              [] d = 6 -> JsonNumber(0)
              [] OTHER -> JsonNumber(1000)])

(***************************************************************************)
(* Error values.  A message is a sequence of words.  kind records what the *)
(* failure really was (an HTTP response, a request timeout, another        *)
(* network failure, a thrown value that is not an Error); the code never   *)
(* reads it.                                                               *)
(***************************************************************************)
StatusWord ==
  [s \in {400, 401, 403, 429, 500, 503} |->
     CASE s = 400 -> "400" [] s = 401 -> "401" [] s = 403 -> "403"
       [] s = 429 -> "429" [] s = 500 -> "500" [] s = 503 -> "503"]

\* parseInt(statusMatch[1], 10) on a word of three digits
ParseInt ==
  [w \in {"400", "401", "403", "429", "500", "503"} |->
     CASE w = "400" -> 400 [] w = "401" -> 401 [] w = "403" -> 403
       [] w = "429" -> 429 [] w = "500" -> 500 [] w = "503" -> 503]

ThreeDigitWords == DOMAIN ParseInt

BodyWords == {"timeout", "status", "Status", "503", "400", "bad"}

RECURSIVE SeqsUpTo(_, _)
SeqsUpTo(S, n) ==
  IF n = 0 THEN {<<>>}
  ELSE LET shorter == SeqsUpTo(S, n - 1)
       IN shorter \cup {Append(q, w) : q \in shorter, w \in S}

Bodies == SeqsUpTo(BodyWords, MaxBodyLen)

\* googlePlaces.ts fetchWithError: new Error(`HTTP ${status}: ${text}`) with .status
fetchWithError(status, body) ==
  [isError |-> TRUE, kind |-> "http", status |-> status,
   message |-> <<"HTTP", StatusWord[status]>> \o body]

HttpErrors == {fetchWithError(s, b) : s \in DOMAIN StatusWord, b \in Bodies}

NetworkErrors ==
  { [isError |-> TRUE, kind |-> "timeout", status |-> NoStatus,
     message |-> <<"connect", "ETIMEDOUT">>],
    [isError |-> TRUE, kind |-> "timeout", status |-> NoStatus,
     message |-> <<"request", "timeout">>],
    [isError |-> TRUE, kind |-> "network", status |-> NoStatus,
     message |-> <<"fetch", "failed">>],
    [isError |-> FALSE, kind |-> "nonError", status |-> NoStatus,
     message |-> <<>>] }

ErrorValues == HttpErrors \cup NetworkErrors

\* String.prototype.includes(word): case-sensitive
Includes(message, word) == \E i \in 1..Len(message) : message[i] = word

\* message.match(/status[:\s]+(\d{3})/i): the leftmost "status" (any case)
\* directly followed by a three-digit number; None when there is no match
StatusMatch(message) ==
  LET hits == {i \in 1..(Len(message) - 1) :
                 /\ message[i] \in {"status", "Status"}
                 /\ message[i + 1] \in ThreeDigitWords}
  IN IF hits = {} THEN None
     ELSE message[(CHOOSE i \in hits : \A j \in hits : i <= j) + 1]

isRetryableError(error, retryableCodes) ==
  IF error.isError
  THEN IF Includes(error.message, "timeout") \/ Includes(error.message, "ETIMEDOUT")
       THEN TRUE
       ELSE IF StatusMatch(error.message) # None
            THEN ParseInt[StatusMatch(error.message)] \in retryableCodes
            ELSE IF error.status # NoStatus
                 THEN error.status \in retryableCodes
                 ELSE FALSE
  ELSE FALSE

(***************************************************************************)
(* Quiescent values of each component, used by the specifications that do  *)
(* not exercise it.                                                        *)
(***************************************************************************)
NoError == [isError |-> FALSE, kind |-> "none", status |-> NoStatus, message |-> <<>>]

NoResult == [kind |-> "none", error |-> NoError]

ClassifyIdle == cErr = NoError /\ cVerdict = None

RetryIdle ==
  /\ rPc = "idle" /\ caller = None /\ rOpts = RETRY_CONFIG
  /\ attempt = 0 /\ calls = 0
  /\ errLog = <<>> /\ waits = <<>> /\ retryLog = <<>> /\ rResult = NoResult

NoAcquire == [entryTokens |-> 0, waitMs |-> 0, leftTokens |-> 0]

LimiterIdle ==
  /\ callers = {} /\ maxTokens = 0 /\ tokens = 0 /\ lastRefill = 0 /\ now = 0
  /\ lPc = <<>> /\ wakeAt = <<>> /\ lastAcq = NoAcquire /\ acquired = 0


NoOptions == [citySlug |-> "", force |-> FALSE, dryRun |-> FALSE, limit |-> 0]

NoRow == [scores |-> emptyVibeScores, source_review_count |-> 0, model_name |-> Null]

\* scoreVibes, lines 63-64, and processCell, lines 312-332, once the
\* classifier has answered text for a cell with count reviews: an exception
\* of parseVibeScores leaves processCell (failed), otherwise the row for
\* upsertCellVibes is built from the parsed scores
ScoringOutcome(text, count) ==
  LET out == parseVibeScores(text)
  IN IF out.threw
     THEN [failed |-> TRUE, row |-> NoRow]
     ELSE [failed |-> FALSE,
           row |-> [scores |-> out.scores, source_review_count |-> count,
                    model_name |-> LLM_MODEL]]

NoOut == [done |-> FALSE, failed |-> FALSE, row |-> NoRow]

ParseIdle == pRaw = <<>> /\ pText = PlainText /\ pOut = NoOut

NoAggregate == [done |-> FALSE, parts |-> <<>>, textLen |-> 0, count |-> 0]

AggregateIdle == aIn = <<>> /\ aOut = NoAggregate

NoRanking == [done |-> FALSE, ranked |-> <<>>]

RankIdle == rankIn = <<>> /\ rankOut = NoRanking

FnIdle == ParseIdle /\ AggregateIdle /\ RankIdle

\* main, lines 352-353: the two limiters, none of whose slots is taken yet
NoSlots == [placesRateLimiter |-> 0, openaiRateLimiter |-> 0]

\* The history of a run that has made no step yet.
HistoryReset(vibes) ==
  /\ vibesAtStart = vibes /\ attemptLog = <<>> /\ touched = {} /\ inserted = {} /\ venuesFailed = {} /\ searchThrew = {} /\ centroidBad = {}
  /\ detailCalls = [v \in PlaceIds |-> 0] /\ detailOks = [v \in PlaceIds |-> 0]
  /\ callsAfterOk = [v \in PlaceIds |-> 0]
  /\ cacheHits = 0 /\ slept = 0 /\ faults = 0
  /\ venuesAtStart = venues /\ fatalCause = None
  /\ callLog = <<>> /\ prevLog = <<>> /\ lostScore = {} /\ lookupFailed = FALSE
  /\ requests = 0 /\ slots = NoSlots

CellIdle ==
  /\ cpc = "none" /\ typeIdx = 0 /\ allPlaces = <<>> /\ rankedVenues = <<>>
  /\ topVenues = <<>> /\ detIdx = 0 /\ placeDetails = <<>> /\ nullDetails = 0
  /\ detailsAsked = <<>>
  /\ pendingRow = NoRow

\* No run has started; the store holds the given tables.
PipelineIdleOn(venueTable, vibeTable) ==
  /\ venues = venueTable
  /\ cellVibes = vibeTable
  /\ pc = "idle" /\ runNo = 0 /\ argv = <<>> /\ options = NoOptions
  /\ cells = <<>> /\ processed = 0 /\ failedCells = <<>>
  /\ detailsCache = {}
  /\ CellIdle
  /\ HistoryReset(cellVibes)

PipelineIdle ==
  PipelineIdleOn([v \in PlaceIds |-> 0], [c \in GridCells |-> <<>>])


(***************************************************************************)
(* SpecClassify: the retryability predicate on one error value.            *)
(***************************************************************************)
ClassifyInit ==
  /\ cErr \in ErrorValues /\ cVerdict = None
  /\ RetryIdle /\ LimiterIdle /\ PipelineIdle /\ FnIdle

Classify ==
  /\ cVerdict = None
  /\ cVerdict' = IF isRetryableError(cErr, RETRY_CONFIG.retryableStatusCodes)
                 THEN "retryable" ELSE "terminal"
  /\ UNCHANGED <<cErr, retryVars, limiterVars, pipelineVars, fnVars>>

ClassifyNext == Classify

SpecClassify == ClassifyInit /\ [][ClassifyNext]_vars

\* What the failure really is: a request timeout, or a response whose status
\* is in the configured retryable set.
TrulyRetryable(error) ==
  \/ error.kind = "timeout"
  \/ error.kind = "http" /\ error.status \in RETRY_CONFIG.retryableStatusCodes

\* C3: the predicate classifies a failure as retryable if and only if it is a
\* request timeout or its response status is in the retryable set (429, 500,
\* 503), whatever the text of its message or response body.
C3_RetryableIffTimeoutOrStatus ==
  cVerdict # None => (cVerdict = "retryable" <=> TrulyRetryable(cErr))

(***************************************************************************)
(* withRetry (rateLimiter.ts 58-95).  One Attempt step is one pass of the  *)
(* loop body: fn() is awaited and, when it rejects, the catch block runs   *)
(* up to the await of sleep(delay).  RetryWake is the rest of the pass:    *)
(* the sleep has elapsed, attempt++ and the loop condition is tested.      *)
(***************************************************************************)
RECURSIVE Pow2(_)
Pow2(n) == IF n = 0 THEN 1 ELSE 2 * Pow2(n - 1)

\* line 79, with the retry-everything slip used to test C1
ShouldThrow_RetryAll(isRetryable, att, maxRetries) == att = maxRetries

\* line 79, with the off-by-one slip used to test C2
ShouldThrow_OneShort(isRetryable, att, maxRetries) ==
  ~isRetryable \/ att + 1 = maxRetries

\* line 79: if (!isRetryable || attempt === options.maxRetries) throw lastError
ShouldThrow(isRetryable, att, maxRetries) == ~isRetryable \/ att = maxRetries

\* lines 84-87 without the cap, used to test C25
BackoffDelay_Uncapped(att, opts) == opts.initialDelayMs * Pow2(att)

\* lines 84-87: Math.min(initialDelayMs * Math.pow(2, attempt), maxDelayMs)
BackoffDelay(att, opts) ==
  Min(opts.initialDelayMs * Pow2(att), opts.maxDelayMs)

\* line 70: attempt <= options.maxRetries
LoopContinues(att, maxRetries) == att <= maxRetries

\* The errors the operation under test may reject with.
TestErrors ==
  { fetchWithError(503, <<>>), fetchWithError(429, <<>>),
    fetchWithError(400, <<>>), fetchWithError(400, <<"timeout">>),
    [isError |-> TRUE, kind |-> "timeout", status |-> NoStatus,
     message |-> <<"connect", "ETIMEDOUT">>],
    [isError |-> TRUE, kind |-> "network", status |-> NoStatus,
     message |-> <<"fetch", "failed">>] }

\* The errors an external request of the pipeline may reject with.
PipelineErrors == {fetchWithError(503, <<>>), fetchWithError(400, <<>>)}

FnErrors == IF caller = "test" THEN TestErrors ELSE PipelineErrors

\* Entry of withRetry(fn, options): lastError = null, attempt = 0
withRetryEnter(who, opts) ==
  /\ rPc = "idle"
  /\ rPc' = "calling" /\ caller' = who /\ rOpts' = opts
  /\ attempt' = 0 /\ calls' = 0
  /\ errLog' = <<>> /\ waits' = <<>> /\ retryLog' = <<>> /\ rResult' = NoResult

\* The caller has consumed the result.
withRetryLeave ==
  /\ rPc' = "idle" /\ caller' = None /\ rOpts' = RETRY_CONFIG
  /\ attempt' = 0 /\ calls' = 0
  /\ errLog' = <<>> /\ waits' = <<>> /\ retryLog' = <<>> /\ rResult' = NoResult

\* lines 71-72: fn() resolves, withRetry returns its value
AttemptOk ==
  /\ rPc = "calling"
  /\ calls' = calls + 1
  /\ rPc' = "returned"
  /\ rResult' = [kind |-> "value", error |-> NoError]
  /\ UNCHANGED <<caller, rOpts, attempt, errLog, waits, retryLog>>

\* lines 73-90: fn() rejects with error e
AttemptFails(e) ==
  /\ rPc = "calling"
  /\ calls' = calls + 1
  /\ errLog' = Append(errLog, e)
  /\ IF ShouldThrow(isRetryableError(e, rOpts.retryableStatusCodes),
                    attempt, rOpts.maxRetries)
     THEN /\ rPc' = "thrown"
          /\ rResult' = [kind |-> "error", error |-> e]
          /\ UNCHANGED <<waits, retryLog>>
     ELSE /\ retryLog' = Append(retryLog, <<attempt + 1, e>>)
          /\ waits' = Append(waits, BackoffDelay(attempt, rOpts))
          /\ rPc' = "sleeping"
          /\ UNCHANGED rResult
  /\ UNCHANGED <<caller, rOpts, attempt>>

\* sleep(delay) has elapsed: attempt++, then line 70's test; line 94 after the loop
RetryWake ==
  /\ rPc = "sleeping"
  /\ attempt' = attempt + 1
  /\ IF LoopContinues(attempt + 1, rOpts.maxRetries)
     THEN rPc' = "calling" /\ UNCHANGED rResult
     ELSE /\ rPc' = "thrown"
          /\ rResult' = [kind |-> "error", error |-> errLog[Len(errLog)]]
  /\ UNCHANGED <<caller, rOpts, calls, errLog, waits, retryLog>>

(***************************************************************************)
(* SpecRetry: withRetry called on an operation that may fail each time.    *)
(***************************************************************************)
TestOptions ==
  { [maxRetries |-> n, initialDelayMs |-> d, maxDelayMs |-> RETRY_CONFIG.maxDelayMs,
     retryableStatusCodes |-> RETRY_CONFIG.retryableStatusCodes] :
    n \in 0..MaxRetriesBound, d \in {RETRY_CONFIG.initialDelayMs, 4000} }

RetryInit == ClassifyIdle /\ RetryIdle /\ LimiterIdle /\ PipelineIdle /\ FnIdle

RetryCall ==
  /\ \E o \in TestOptions : withRetryEnter("test", o)
  /\ UNCHANGED <<classifyVars, limiterVars, pipelineVars, fnVars>>

RetryAttemptOk == AttemptOk /\ UNCHANGED <<classifyVars, limiterVars, pipelineVars, fnVars>>

RetryAttemptFails ==
  /\ \E e \in FnErrors : AttemptFails(e)
  /\ UNCHANGED <<classifyVars, limiterVars, pipelineVars, fnVars>>

RetrySleepDone == RetryWake /\ UNCHANGED <<classifyVars, limiterVars, pipelineVars, fnVars>>

RetryNext == RetryCall \/ RetryAttemptOk \/ RetryAttemptFails \/ RetrySleepDone

SpecRetry == RetryInit /\ [][RetryNext]_vars

Retryable(e) == isRetryableError(e, rOpts.retryableStatusCodes)

\* C1: when the operation's first failure is classified non-retryable, the
\* operation has been invoked exactly once, withRetry has thrown that same
\* error, and neither a backoff wait nor an onRetry callback has happened.
C1_NonRetryableFailsFast ==
  (errLog # <<>> /\ ~Retryable(errLog[1]))
    => /\ rPc = "thrown"
       /\ calls = 1
       /\ rResult = [kind |-> "error", error |-> errLog[1]]
       /\ waits = <<>>
       /\ retryLog = <<>>

C1_Witness ==
  /\ rPc = "thrown" /\ calls = 1 /\ rOpts.maxRetries >= 1
  /\ errLog # <<>> /\ ~Retryable(errLog[1])

\* C2: with maximum retry count N, the operation is never invoked more than
\* N+1 times; when every attempt fails with a retryable error, withRetry
\* throws exactly when the (N+1)-th attempt has failed, and it throws the
\* error of that last attempt.
C2_RetryableExhaustsBudget ==
  /\ calls <= rOpts.maxRetries + 1
  /\ (\A i \in 1..Len(errLog) : Retryable(errLog[i]))
       => /\ (rPc = "thrown" <=> Len(errLog) = rOpts.maxRetries + 1)
          /\ rPc = "thrown" =>
               /\ calls = rOpts.maxRetries + 1
               /\ rResult = [kind |-> "error", error |-> errLog[calls]]

C2_Witness ==
  /\ rPc = "thrown" /\ rOpts.maxRetries >= 2
  /\ calls = rOpts.maxRetries + 1
  /\ \A i \in 1..Len(errLog) : Retryable(errLog[i])

(***************************************************************************)
(* RateLimiter (rateLimiter.ts 5-46).  The clock now is Date.now() in      *)
(* milliseconds since the limiter was constructed.  tokens is kept in      *)
(* thousandths of a token: refillRate = requestsPerSecond / 1000 tokens    *)
(* per millisecond is maxTokens thousandths per millisecond.               *)
(***************************************************************************)
MsPerSecond == 1000

OneToken == MsPerSecond

\* lines 39-43 without Math.min, used to test C26
RefilledTokens_Uncapped(tok, last, t) == tok + (t - last) * maxTokens

\* lines 39-43: Math.min(maxTokens, tokens + (now - lastRefill) * refillRate)
RefilledTokens(tok, last, t) ==
  Min(maxTokens * OneToken, tok + (t - last) * maxTokens)

\* line 24 accepting any positive fraction of a token, used to test C4
HasToken_AnyFraction(tok) == tok > 0

\* line 24: if (this.tokens >= 1)
HasToken(tok) == tok >= OneToken

\* Math.ceil(a / b) for a >= 0, b > 0
CeilDiv(a, b) == (a + b - 1) \div b

\* line 31 rounding down, used to test C5
WaitMs_Floor(tok) == (OneToken - tok) \div maxTokens

\* lines 30-31: Math.ceil((1 - tokens) / refillRate)
WaitMs(tok) == CeilDiv(OneToken - tok, maxTokens)

\* constructor(requestsPerSecond)
RateLimiterNew(requestsPerSecond, who) ==
  /\ callers = who
  /\ maxTokens = requestsPerSecond
  /\ tokens = requestsPerSecond * OneToken
  /\ lastRefill = 0 /\ now = 0
  /\ lPc = [c \in who |-> "idle"]
  /\ wakeAt = [c \in who |-> 0]
  /\ lastAcq = NoAcquire
  /\ acquired = 0

\* acquire(), lines 22-33: refill; take a token and return, or start the sleep
AcquireEnter(c) ==
  /\ lPc[c] = "idle"
  /\ acquired + Cardinality({d \in callers : lPc[d] = "sleeping"}) < MaxAcquires
  /\ LET t == RefilledTokens(tokens, lastRefill, now)
     IN /\ lastRefill' = now
        /\ IF HasToken(t)
           THEN /\ tokens' = t - OneToken
                /\ acquired' = acquired + 1
                /\ lastAcq' = [entryTokens |-> t, waitMs |-> 0,
                               leftTokens |-> t - OneToken]
                /\ UNCHANGED <<lPc, wakeAt>>
           ELSE /\ tokens' = t
                /\ lPc' = [lPc EXCEPT ![c] = "sleeping"]
                /\ wakeAt' = [wakeAt EXCEPT ![c] = now + WaitMs(t)]
                /\ lastAcq' = [entryTokens |-> t, waitMs |-> WaitMs(t),
                               leftTokens |-> t]
                /\ UNCHANGED acquired
  /\ UNCHANGED <<callers, maxTokens, now>>

\* acquire(), lines 33-35: the sleep has elapsed; refill and take the token
AcquireResume(c) ==
  /\ lPc[c] = "sleeping"
  /\ now >= wakeAt[c]
  /\ LET t == RefilledTokens(tokens, lastRefill, now)
     IN /\ lastRefill' = now
        /\ tokens' = t - OneToken
        /\ lastAcq' = [lastAcq EXCEPT !.leftTokens = t - OneToken]
  /\ acquired' = acquired + 1
  /\ lPc' = [lPc EXCEPT ![c] = "idle"]
  /\ UNCHANGED <<callers, maxTokens, now, wakeAt>>

Sleeping == {c \in callers : lPc[c] = "sleeping" /\ now < wakeAt[c]}

\* Time passes.  The clock stops at MaxTime unless a sleeper still waits.
TickSteps == {50, 300}

Tick ==
  /\ \E d \in TickSteps :
       /\ now + d <= MaxTime \/ Sleeping # {}
       /\ now' = now + d
  /\ UNCHANGED <<callers, maxTokens, tokens, lastRefill, lPc, wakeAt, lastAcq,
                 acquired>>

\* Time passes up to the moment the earliest pending timer fires.
TickToTimer ==
  /\ Sleeping # {}
  /\ now' = wakeAt[CHOOSE c \in Sleeping : \A d \in Sleeping : wakeAt[c] <= wakeAt[d]]
  /\ UNCHANGED <<callers, maxTokens, tokens, lastRefill, lPc, wakeAt, lastAcq,
                 acquired>>

(***************************************************************************)
(* SpecLimiter: one caller issuing acquire() calls one after the other.    *)
(***************************************************************************)
Rates == {RATE_LIMITS.openai.requestsPerSecond, RATE_LIMITS.googlePlaces.requestsPerSecond}

LimiterInit ==
  /\ ClassifyIdle /\ RetryIdle /\ PipelineIdle /\ FnIdle
  /\ \E r \in Rates : RateLimiterNew(r, {1})

LimiterAcquire ==
  /\ \E c \in callers : AcquireEnter(c)
  /\ UNCHANGED <<classifyVars, retryVars, pipelineVars, fnVars>>

LimiterResume ==
  /\ \E c \in callers : AcquireResume(c)
  /\ UNCHANGED <<classifyVars, retryVars, pipelineVars, fnVars>>

LimiterTick == Tick /\ UNCHANGED <<classifyVars, retryVars, pipelineVars, fnVars>>

LimiterTimer == TickToTimer /\ UNCHANGED <<classifyVars, retryVars, pipelineVars, fnVars>>

LimiterNext == LimiterAcquire \/ LimiterResume \/ LimiterTick \/ LimiterTimer

\* The clock advances and a fired timer resumes its caller.
SpecLimiter ==
  /\ LimiterInit /\ [][LimiterNext]_vars
  /\ WF_vars(LimiterTimer) /\ WF_vars(LimiterResume)

\* C4: acquire never rejects.  A call returns at once exactly when at least
\* one token is available after the refill; otherwise it sleeps once, for a
\* finite time no longer than one token takes to accumulate, and after that
\* sleep the token it consumes is there (the count is not driven below zero);
\* a sleeping call always returns.
C4_AcquireAlwaysReturns ==
  /\ [](lastAcq # NoAcquire =>
          /\ (lastAcq.waitMs = 0 <=> lastAcq.entryTokens >= OneToken)
          /\ lastAcq.waitMs <= CeilDiv(OneToken, maxTokens)
          /\ lastAcq.leftTokens >= 0
          /\ lPc[1] = "idle" => tokens = lastAcq.leftTokens)
  /\ (lPc[1] = "sleeping") ~> (lPc[1] = "idle")

C4_Witness ==
  /\ lPc[1] = "idle" /\ lastAcq.waitMs > 0
  /\ acquired > maxTokens

\* C5: with sequential callers the number of completed acquire calls at
\* elapsed time t never exceeds R + R*t (t in seconds), so N acquires take at
\* least (N-R)/R seconds.
C5_RateBound ==
  OneToken * acquired <= OneToken * maxTokens + maxTokens * now

C5_Witness ==
  /\ acquired > maxTokens
  /\ OneToken * acquired = OneToken * maxTokens + maxTokens * now

(***************************************************************************)
(* The orchestrator: main() and processCell() of ingestCity.ts, with the   *)
(* GooglePlacesClient and VibeScorer calls they make.  pc is the state of  *)
(* the process: idle (not started), loading, processing, done (main        *)
(* returned), fatal (process.exit(1)), killed (terminated from outside).   *)
(* cpc is the await point processCell stands at.  The timing of acquire()  *)
(* is the subject of SpecLimiter and is not repeated here.  A run suffers  *)
(* at most MaxFaults failing operations (a store call that errors, a       *)
(* malformed answer, an external call whose first request fails).          *)
(***************************************************************************)
\* The cities table: the slugs that resolve to a city
Cities == {"san-francisco", DenseCity}

\* String.prototype.startsWith('-') on the words of the command lines
StartsWithDash(w) == w \in {"--force", "--dry-run", "--limit", "--skip"}

\* parseInt(word, 10); NaN for a word that does not start with a digit
NaN == -1
parseInt(w) == CASE w = "0" -> 0 [] w = "1" -> 1 [] OTHER -> NaN

\* Array.prototype.indexOf, counted from 1; 0 when the word is absent
IndexOf(args, w) ==
  IF Includes(args, w)
  THEN CHOOSE i \in 1..Len(args) :
         args[i] = w /\ \A j \in 1..(i - 1) : args[j] # w
  ELSE 0

\* parseArgs, lines 62-91, on process.argv.slice(2).  ok is FALSE where the
\* code prints the usage or 'Invalid --limit value' and exits; limit 0 is
\* the code's null.  No other word of the command line is read.
parseArgs(args) ==
  IF args = <<>> \/ StartsWithDash(args[1])
  THEN [ok |-> FALSE, options |-> NoOptions]
  ELSE LET limitIndex == IndexOf(args, "--limit")
           hasValue == limitIndex # 0 /\ limitIndex + 1 <= Len(args)
           n == IF hasValue THEN parseInt(args[limitIndex + 1]) ELSE NaN
       IN IF hasValue /\ (n = NaN \/ n <= 0)
          THEN [ok |-> FALSE, options |-> NoOptions]
          ELSE [ok |-> TRUE,
                options |-> [citySlug |-> args[1],
                             force |-> Includes(args, "--force"),
                             dryRun |-> Includes(args, "--dry-run"),
                             limit |-> IF hasValue THEN n ELSE 0]]

\* The --limit values of the command lines (0: the option is not given)
Limits == {0, 1}

\* A command line for the city with the given options
ArgsFor(slug, f, d, l) ==
  <<slug>> \o (IF f THEN <<"--force">> ELSE <<>>)
           \o (IF d THEN <<"--dry-run">> ELSE <<>>)
           \o (IF l # 0 THEN <<"--limit", "1">> ELSE <<>>)

ValidArgLists ==
  {ArgsFor("san-francisco", f, d, l) : f \in BOOLEAN, d \in BOOLEAN, l \in Limits}

\* Command lines that parseArgs or getCityId reject
BadArgLists ==
  {<<>>, <<"--force", "san-francisco">>, <<"san-francisco", "--limit", "0">>,
   <<"san-francisco", "--limit", "abc">>, <<"atlantis">>}

ArgLists == ValidArgLists \cup BadArgLists

OptionSets == {parseArgs(a).options : a \in ValidArgLists}

\* process.exit(1) replaced by a return, used to test C18
processExit_Returns == "loading"

\* process.exit(1), lines 58, 71, 86, 106 and 144: the run is over
processExit == "fatal"

cell == cells[processed]

\* One external operation, as logged for the properties: a search of a cell
\* for a place type (n), a detail fetch of a place, a classification of a
\* text of n characters.
Call(kind, c, place, n) == [kind |-> kind, cell |-> c, place |-> place, n |-> n]

\* The limiter of a client: GooglePlacesClient (search, details) is built on
\* placesRateLimiter, VibeScorer on openaiRateLimiter (main, lines 355-356)
LimiterOf(who) ==
  IF who = "llm" THEN "openaiRateLimiter" ELSE "placesRateLimiter"

\* this.rateLimiter.acquire() at the head of nearbySearch (line 56),
\* getPlaceDetails (line 127) and scoreVibes (line 43)
AcquireSlot(who) == slots' = [slots EXCEPT ![LimiterOf(who)] = @ + 1]

\* The function passed to withRetry acquiring a slot when it is called
\* again, used to test C34
RetryAcquiresSlot_Yes == TRUE

\* googlePlaces.ts, lines 69-79 and 132-141, vibeScorer.ts, lines 47-54: the
\* function passed to withRetry only sends the request
RetryAcquiresSlot == FALSE

\* The slots after one request of the operation under withRetry was sent
SlotsAfterRequest ==
  IF RetryAcquiresSlot /\ calls > 0
  THEN [slots EXCEPT ![LimiterOf(caller)] = @ + 1]
  ELSE slots

\* An operation of the environment succeeds, or fails within the budget of
\* failures of the behaviour.
Inject(ok) ==
  IF ok THEN faults' = faults
  ELSE faults < MaxFaults /\ faults' = faults + 1

\* processCell has returned or thrown: its locals are gone
ResetCell(at) ==
  /\ cpc' = at /\ typeIdx' = 0 /\ allPlaces' = <<>> /\ rankedVenues' = <<>>
  /\ topVenues' = <<>> /\ detIdx' = 0 /\ placeDetails' = <<>> /\ nullDetails' = 0
  /\ detailsAsked' = <<>>
  /\ pendingRow' = NoRow

\* main, lines 342-360, started on the command line a: validateEnv,
\* parseArgs, the clients (an empty details cache, fresh limiters), getCityId.
\* envOk: the four credentials are set; queryOk: the cities query answers.
StartRunOn(a) ==
  \E envOk \in BOOLEAN, queryOk \in BOOLEAN :
    LET p == parseArgs(a)
    IN /\ argv' = a
       /\ ~(envOk /\ p.ok) => queryOk
       /\ Inject(queryOk)
       /\ options' = IF envOk /\ p.ok THEN p.options ELSE NoOptions
       /\ IF ~envOk THEN pc' = processExit /\ fatalCause' = "env"
          ELSE IF ~p.ok THEN pc' = processExit /\ fatalCause' = "args"
          ELSE IF ~queryOk \/ p.options.citySlug \notin Cities
               THEN pc' = processExit /\ fatalCause' = "city"
               ELSE pc' = "loading" /\ fatalCause' = None

StartRun ==
  /\ pc \in {"idle", "done", "fatal", "killed"}
  /\ runNo < MaxRuns
  /\ runNo' = runNo + 1
  /\ \E a \in ArgLists : StartRunOn(a)
  /\ cells' = <<>> /\ processed' = 0 /\ failedCells' = <<>>
  /\ detailsCache' = {}
  /\ ResetCell("none")
  /\ vibesAtStart' = cellVibes /\ attemptLog' = <<>> /\ touched' = {} /\ inserted' = {} /\ venuesFailed' = {}
  /\ searchThrew' = {} /\ centroidBad' = {}
  /\ detailCalls' = [v \in PlaceIds |-> 0] /\ detailOks' = [v \in PlaceIds |-> 0]
  /\ callsAfterOk' = [v \in PlaceIds |-> 0]
  /\ cacheHits' = 0 /\ slept' = 0 /\ requests' = 0 /\ slots' = NoSlots
  /\ venuesAtStart' = venues
  /\ callLog' = <<>> /\ prevLog' = prevLog /\ lostScore' = lostScore
  /\ lookupFailed' = FALSE
  /\ UNCHANGED <<storeVars, classifyVars, retryVars, limiterVars, fnVars>>

\* getGridCells, lines 159-160: the cells left when the scored ones are
\* subtracted
RECURSIVE Unprocessed(_, _)
Unprocessed(list, processedIds) ==
  IF list = <<>> THEN <<>>
  ELSE (IF Head(list) \in processedIds THEN <<>> ELSE <<Head(list)>>)
       \o Unprocessed(Tail(list), processedIds)

\* getGridCells, lines 150-158: the grid_cell_id values the cell_vibes lookup
\* returns; a failed lookup yields data = null, taken as no scored cell
ExistingVibes(lookupOk) ==
  IF lookupOk THEN {c \in GridCells : cellVibes[c] # <<>>} ELSE {}

\* getGridCells ending the process when the lookup fails, as it does for the
\* RPC, used to test C40
OnLookupError_Exit == "exit"

\* getGridCells, lines 150-158: only data is read from the lookup's result,
\* and data that is null is taken as an empty list
OnLookupError == "empty"

\* getGridCells, lines 111-175, and main, lines 362-368.  The lookup is sent
\* only when the RPC answered and force is off.
LoadCells ==
  /\ pc = "loading"
  /\ \E rpcOk \in BOOLEAN, lookupOk \in BOOLEAN :
       /\ (~rpcOk \/ options.force) => lookupOk
       /\ Inject(rpcOk /\ lookupOk)
       /\ lookupFailed' = (rpcOk /\ ~lookupOk)
       /\ IF ~rpcOk \/ (~lookupOk /\ OnLookupError = "exit")
          THEN /\ pc' = "fatal"
               /\ fatalCause' = IF ~rpcOk THEN "rpc" ELSE "lookup"
               /\ UNCHANGED <<cells, cpc>>
          ELSE LET kept == IF options.force THEN CityCells(options.citySlug)
                           ELSE Unprocessed(CityCells(options.citySlug),
                                            ExistingVibes(lookupOk))
                   list == IF options.limit # 0 THEN Slice(kept, options.limit)
                           ELSE kept
               IN /\ cells' = list
                  /\ UNCHANGED fatalCause
                  /\ IF list = <<>>
                     THEN pc' = "done" /\ UNCHANGED cpc
                     ELSE pc' = "processing" /\ cpc' = "begin"
  /\ UNCHANGED <<runNo, argv, options, processed, failedCells, detailsCache,
                 typeIdx, allPlaces, rankedVenues, topVenues, detIdx,
                 placeDetails, nullDetails, detailsAsked, pendingRow, storeVars,
                 vibesAtStart, venuesAtStart, prevLog, lostScore, attemptLog, touched, inserted, venuesFailed,
                 callLog, searchThrew, centroidBad, detailCalls, detailOks, callsAfterOk,
                 cacheHits, slept, requests, slots, classifyVars, retryVars, limiterVars,
                 fnVars>>

\* main, lines 380-388 letting the error escape, used to test C8
CatchCellError_Rethrow == "fatal"

\* main, lines 380-388: the catch records the failure and the loop goes on
CatchCellError == "processing"

\* processCell throws error for cell c: main's catch appends to failedCells
FailCell(c, error) ==
  /\ pc' = CatchCellError
  /\ failedCells' = Append(failedCells, [cellId |-> c, error |-> error])
  /\ ResetCell("between")

\* processCell returning quietly on an unparseable centroid, used to test C31
OnBadCentroid_Skip == "skip"

\* processCell, lines 241-244: a null from parsePointWKT is thrown as an error
OnBadCentroid == "throw"

\* main, lines 374-376, and processCell, lines 241-246: parsePointWKT returns
\* null for a centroid that is not WKT text
BeginCell ==
  /\ pc = "processing" /\ cpc = "begin"
  /\ processed' = processed + 1
  /\ attemptLog' = Append(attemptLog, cells[processed + 1])
  /\ \E wktOk \in BOOLEAN :
       /\ Inject(wktOk)
       /\ centroidBad' = IF wktOk THEN centroidBad
                         ELSE centroidBad \cup {cells[processed + 1]}
       /\ IF wktOk
          THEN /\ cpc' = "search" /\ typeIdx' = 1
               /\ UNCHANGED <<pc, failedCells, allPlaces, rankedVenues,
                              topVenues, detIdx, placeDetails, nullDetails, detailsAsked,
                              pendingRow>>
          ELSE IF OnBadCentroid = "throw"
               THEN FailCell(cells[processed + 1], "centroid: parse failed")
               ELSE /\ ResetCell("between")
                    /\ UNCHANGED <<pc, failedCells>>
  /\ UNCHANGED <<runNo, argv, options, cells, detailsCache, vibesAtStart,
                 venuesAtStart, fatalCause, prevLog, lostScore, lookupFailed, touched, inserted, venuesFailed, callLog,
                 searchThrew, detailCalls, detailOks, callsAfterOk, cacheHits, slept,
                 requests, slots, storeVars, classifyVars, retryVars, limiterVars,
                 fnVars>>

\* nearbySearch, lines 56-85: acquire a slot, enter withRetry
SearchCall ==
  /\ AcquireSlot("search")
  /\ pc = "processing" /\ cpc = "search"
  /\ withRetryEnter("search", RETRY_CONFIG)
  /\ cpc' = "searching"
  /\ touched' = touched \cup {cell}
  /\ callLog' = Append(callLog, Call("search", cell, "", typeIdx))
  /\ UNCHANGED <<inserted, venuesFailed, runVars, typeIdx, allPlaces, rankedVenues, topVenues, detIdx,
                 placeDetails, nullDetails, detailsAsked, pendingRow, vibesAtStart,
                 venuesAtStart, fatalCause, prevLog, lostScore, lookupFailed, attemptLog, searchThrew, centroidBad,
                 detailCalls, detailOks, callsAfterOk, cacheHits, slept, requests,
                 faults, storeVars, classifyVars, limiterVars, fnVars>>

\* One request of the operation under withRetry is answered.
RequestOk ==
  /\ pc = "processing" /\ AttemptOk
  /\ UNCHANGED <<pipelineVars, classifyVars, limiterVars, fnVars>>

\* One request fails; the first failure of an operation is drawn from the
\* fault budget.
RequestFails ==
  /\ pc = "processing"
  /\ Inject(attempt # 0)
  /\ \E e \in FnErrors : AttemptFails(e)
  /\ UNCHANGED <<storeVars, runVars, cellVars, vibesAtStart, venuesAtStart,
                 fatalCause, prevLog, lostScore, lookupFailed, attemptLog, touched, inserted, venuesFailed, callLog,
                 searchThrew, centroidBad, detailCalls, detailOks, callsAfterOk, cacheHits, slept,
                 requests, slots, classifyVars, limiterVars, fnVars>>

RequestBackoffDone ==
  /\ pc = "processing" /\ RetryWake
  /\ UNCHANGED <<pipelineVars, classifyVars, limiterVars, fnVars>>

\* searchAllTypes appending every place of every search, used to test C23
MergeUnseen_KeepAll(all, places) == all \o places

\* searchAllTypes, lines 105-110: append the places not seen yet
RECURSIVE MergeUnseen(_, _)
MergeUnseen(all, places) ==
  IF places = <<>> THEN all
  ELSE MergeUnseen(IF \E i \in 1..Len(all) : all[i] = Head(places)
                   THEN all ELSE Append(all, Head(places)),
                   Tail(places))

\* searchAllTypes returning after its first place type, used to test C32
LastPlaceType_First(t) == t = 1

\* searchAllTypes, lines 102-113: the loop ends after the last of placeTypes
LastPlaceType(t) == t = NumTypes

\* nearbySearch, lines 87-88, and searchAllTypes, lines 102-113; a body that
\* is not JSON makes response.json() throw out of processCell
SearchDone ==
  /\ pc = "processing" /\ cpc = "searching" /\ rPc = "returned"
  /\ withRetryLeave
  /\ \E bodyOk \in BOOLEAN :
       /\ Inject(bodyOk)
       /\ IF bodyOk
          THEN /\ allPlaces' = MergeUnseen(allPlaces, NearbyPlaces(cell, typeIdx))
               /\ IF LastPlaceType(typeIdx)
                  THEN cpc' = "venues" /\ UNCHANGED typeIdx
                  ELSE cpc' = "search" /\ typeIdx' = typeIdx + 1
               /\ UNCHANGED <<pc, failedCells, rankedVenues, topVenues, detIdx,
                              placeDetails, nullDetails, detailsAsked, pendingRow>>
          ELSE FailCell(cell, "search: invalid JSON body")
  /\ UNCHANGED <<runNo, argv, options, cells, processed, detailsCache,
                 vibesAtStart, venuesAtStart, fatalCause, prevLog, lostScore, lookupFailed, attemptLog,
                 touched, inserted, venuesFailed, callLog, searchThrew, centroidBad, detailCalls, detailOks,
                 callsAfterOk, cacheHits, slept, requests, slots, storeVars, classifyVars,
                 limiterVars, fnVars>>

\* nearbySearch with the failure swallowed into an empty result, used to test C9
OnSearchError_Swallow == "empty"

\* nearbySearch, lines 69-85: withRetry's error is not caught
OnSearchError == "throw"

\* withRetry threw in nearbySearch: the error leaves searchAllTypes and processCell
SearchFailed ==
  /\ pc = "processing" /\ cpc = "searching" /\ rPc = "thrown"
  /\ withRetryLeave
  /\ searchThrew' = searchThrew \cup {cell}
  /\ IF OnSearchError = "throw"
     THEN FailCell(cell, "search: request failed")
     ELSE /\ cpc' = "venues"
          /\ UNCHANGED <<pc, failedCells, typeIdx, allPlaces, rankedVenues,
                         topVenues, detIdx, placeDetails, nullDetails, detailsAsked,
                         pendingRow>>
  /\ UNCHANGED <<runNo, argv, options, cells, processed, detailsCache,
                 vibesAtStart, venuesAtStart, fatalCause, prevLog, lostScore, lookupFailed, attemptLog,
                 touched, inserted, venuesFailed, callLog, centroidBad, detailCalls, detailOks, callsAfterOk,
                 cacheHits, slept, requests, slots, faults, storeVars, classifyVars,
                 limiterVars, fnVars>>

\* upsertVenues and upsertCellVibes writing in a dry run too, used to test C13
DryRun_Ignored == FALSE

\* upsertVenues, line 182, and upsertCellVibes, line 208: if (dryRun) return
DryRun == options.dryRun

\* The row of an empty cell carrying a model name, used to test C16
EmptyCellRow_WithModel ==
  [scores |-> emptyVibeScores, source_review_count |-> 0, model_name |-> LLM_MODEL]

\* processCell, lines 284-294: the row written for a cell without a
\* qualified venue
EmptyCellRow ==
  [scores |-> emptyVibeScores, source_review_count |-> 0, model_name |-> Null]

\* venueData built from every place the search returned, used to test C14
venueData_AllPlaces(places, ranked) == places

\* processCell, lines 264-275: venueData is rankedVenues.map(...), one row
\* per qualified venue
venueData(places, ranked) == ranked

\* upsertVenues throwing the upsert's error as upsertCellVibes does, used to
\* test C37
OnUpsertError_Throw == "throw"

\* upsertVenues, lines 198-200: the upsert's error is logged, nothing is thrown
OnUpsertError == "log"

\* processCell, lines 256-296: qualify, rank, take the top venues, upsert the
\* venue rows (upsertVenues, lines 177-201, whose error is only logged), then
\* branch on topVenues
PersistVenues ==
  /\ pc = "processing" /\ cpc = "venues"
  /\ LET ranked == rankVenues(filterQualifiedVenues(allPlaces, MIN_REVIEW_COUNT))
         top == TopVenues(ranked)
     IN \E upsertOk \in BOOLEAN :
          /\ (DryRun \/ venueData(allPlaces, ranked) = <<>>) => upsertOk
          /\ Inject(upsertOk)
          /\ venues' = IF DryRun \/ venueData(allPlaces, ranked) = <<>>
                          \/ ~upsertOk
                       THEN venues
                       ELSE [v \in PlaceIds |->
                               IF \E i \in 1..Len(venueData(allPlaces, ranked)) :
                                    venueData(allPlaces, ranked)[i] = v
                               THEN cell ELSE venues[v]]
          /\ venuesFailed' = IF upsertOk THEN venuesFailed
                             ELSE venuesFailed \cup {cell}
          /\ IF ~upsertOk /\ OnUpsertError = "throw"
             THEN FailCell(cell, "venues: store error")
             ELSE /\ rankedVenues' = ranked
                  /\ topVenues' = top
                  /\ IF top = <<>>
                     THEN /\ pendingRow' = EmptyCellRow
                          /\ cpc' = "vibes_delete"
                          /\ UNCHANGED detIdx
                     ELSE /\ cpc' = "details" /\ detIdx' = 1
                          /\ UNCHANGED pendingRow
                  /\ UNCHANGED <<pc, failedCells, typeIdx, allPlaces,
                                 placeDetails, nullDetails, detailsAsked>>
  /\ UNCHANGED <<cellVibes, runNo, argv, options, cells, processed,
                 detailsCache, vibesAtStart, venuesAtStart, fatalCause,
                 prevLog, lostScore, lookupFailed, attemptLog, touched, inserted, callLog, searchThrew, centroidBad,
                 detailCalls, detailOks, callsAfterOk, cacheHits, slept, requests, slots,
                 classifyVars, retryVars, limiterVars, fnVars>>

\* processCell, lines 301-306: the loop over topVenues moves on
NextVenue ==
  IF detIdx = Len(topVenues)
  THEN cpc' = "aggregate" /\ UNCHANGED detIdx
  ELSE cpc' = "details" /\ detIdx' = detIdx + 1

\* getPlaceDetails without the cache lookup, used to test C6
CacheHas_Never(placeId) == FALSE

\* getPlaceDetails, lines 122-123: this.detailsCache.get(placeId) is truthy
CacheHas(placeId) == placeId \in detailsCache

\* getPlaceDetails, lines 122-125: the cached record is returned
DetailsCacheHit ==
  /\ pc = "processing" /\ cpc = "details"
  /\ CacheHas(topVenues[detIdx])
  /\ placeDetails' = Append(placeDetails, topVenues[detIdx])
  /\ detailsAsked' = Append(detailsAsked, topVenues[detIdx])
  /\ cacheHits' = cacheHits + 1
  /\ NextVenue
  /\ UNCHANGED <<slept, storeVars, runVars, typeIdx, allPlaces, rankedVenues,
                 topVenues, nullDetails, pendingRow, vibesAtStart,
                 venuesAtStart, fatalCause, prevLog, lostScore, lookupFailed, attemptLog, touched, inserted, venuesFailed,
                 callLog, searchThrew, centroidBad, detailCalls, detailOks, callsAfterOk,
                 faults, requests, slots, classifyVars, retryVars, limiterVars,
                 fnVars>>

\* getPlaceDetails, lines 127-147: a miss acquires a slot and enters withRetry
DetailsCall ==
  /\ AcquireSlot("details")
  /\ pc = "processing" /\ cpc = "details"
  /\ ~CacheHas(topVenues[detIdx])
  /\ withRetryEnter("details", RETRY_CONFIG)
  /\ cpc' = "fetching"
  /\ detailsAsked' = Append(detailsAsked, topVenues[detIdx])
  /\ touched' = touched \cup {cell}
  /\ callLog' = Append(callLog, Call("details", cell, topVenues[detIdx], 0))
  /\ detailCalls' = [detailCalls EXCEPT ![topVenues[detIdx]] = @ + 1]
  /\ callsAfterOk' = IF detailOks[topVenues[detIdx]] > 0
                     THEN [callsAfterOk EXCEPT ![topVenues[detIdx]] = @ + 1]
                     ELSE callsAfterOk
  /\ UNCHANGED <<inserted, venuesFailed, runVars, typeIdx, allPlaces, rankedVenues, topVenues, detIdx,
                 placeDetails, nullDetails, pendingRow, vibesAtStart,
                 venuesAtStart, fatalCause, prevLog, lostScore, lookupFailed, attemptLog, searchThrew, centroidBad,
                 detailOks, cacheHits, slept, requests, faults, storeVars,
                 classifyVars, limiterVars, fnVars>>

\* getPlaceDetails, lines 152-156, rethrowing, used to test C7
OnDetailsError_Rethrow == "throw"

\* getPlaceDetails, lines 152-156: the catch logs and returns null
OnDetailsError == "null"

\* getPlaceDetails caching the identifier of a failed fetch, used to test C35
CacheAfterFailure_Recorded(cache, placeId) == cache \cup {placeId}

\* getPlaceDetails, lines 152-156: the catch returns null and sets nothing
CacheAfterFailure(cache, placeId) == cache

\* getPlaceDetails returned null: processCell, line 303, skips the venue
DetailsNull ==
  /\ IF OnDetailsError = "null"
     THEN /\ nullDetails' = nullDetails + 1
          /\ NextVenue
          /\ UNCHANGED <<pc, failedCells, typeIdx, allPlaces, rankedVenues,
                         topVenues, placeDetails, detailsAsked, pendingRow>>
     ELSE FailCell(cell, "details: request failed")
  /\ detailsCache' = CacheAfterFailure(detailsCache, topVenues[detIdx])
  /\ UNCHANGED detailOks

\* getPlaceDetails, lines 149-151 (the record is cached and returned) or, for
\* a body that is not JSON, lines 152-156
DetailsDone ==
  /\ pc = "processing" /\ cpc = "fetching" /\ rPc = "returned"
  /\ withRetryLeave
  /\ \E bodyOk \in BOOLEAN :
       /\ Inject(bodyOk)
       /\ IF bodyOk
          THEN /\ detailsCache' = detailsCache \cup {topVenues[detIdx]}
               /\ placeDetails' = Append(placeDetails, topVenues[detIdx])
               /\ detailOks' = [detailOks EXCEPT ![topVenues[detIdx]] = @ + 1]
               /\ NextVenue
               /\ UNCHANGED <<pc, failedCells, typeIdx, allPlaces, rankedVenues,
                              topVenues, nullDetails, detailsAsked, pendingRow>>
          ELSE DetailsNull
  /\ UNCHANGED <<runNo, argv, options, cells, processed, vibesAtStart,
                 venuesAtStart, fatalCause, prevLog, lostScore, lookupFailed, attemptLog, touched, inserted, venuesFailed,
                 callLog, searchThrew, centroidBad, detailCalls, callsAfterOk, cacheHits, slept,
                 requests, slots, storeVars, classifyVars, limiterVars, fnVars>>

\* getPlaceDetails, lines 152-156: withRetry threw
DetailsFailed ==
  /\ pc = "processing" /\ cpc = "fetching" /\ rPc = "thrown"
  /\ withRetryLeave
  /\ DetailsNull
  /\ UNCHANGED <<runNo, argv, options, cells, processed, vibesAtStart,
                 venuesAtStart, fatalCause, prevLog, lostScore, lookupFailed, attemptLog, touched, inserted, venuesFailed,
                 callLog, searchThrew, centroidBad, detailCalls, callsAfterOk, cacheHits, slept,
                 requests, slots, faults, storeVars, classifyVars, limiterVars,
                 fnVars>>

\* The row of a cell without review text naming the model, used to test C38
NoTextRow_WithModel(count) ==
  [scores |-> emptyVibeScores, source_review_count |-> count,
   model_name |-> LLM_MODEL]

\* processCell, lines 314-317 and 325-333: with an empty text the scores are
\* emptyVibeScores(), the count is reviewCount and model_name is null
NoTextRow(count) ==
  [scores |-> emptyVibeScores, source_review_count |-> count,
   model_name |-> Null]

\* processCell, lines 308-321: aggregate the reviews; with no text the scores
\* are empty, otherwise scoreVibes (lines 42-61) acquires a slot and enters
\* withRetry
AggregateAndScore ==
  /\ pc = "processing" /\ cpc = "aggregate"
  /\ LET agg == ReviewsOf(placeDetails)
     IN IF agg.textLen = 0
        THEN /\ pendingRow' = NoTextRow(agg.count)
             /\ cpc' = "vibes_delete"
             /\ UNCHANGED <<touched, callLog, slots, retryVars>>
        ELSE /\ AcquireSlot("llm")
             /\ withRetryEnter("llm", RETRY_CONFIG)
             /\ cpc' = "scoring"
             /\ touched' = touched \cup {cell}
             /\ callLog' = Append(callLog, Call("llm", cell, "", agg.textLen))
             /\ UNCHANGED pendingRow
  /\ UNCHANGED <<inserted, venuesFailed, runVars, typeIdx, allPlaces, rankedVenues, topVenues, detIdx,
                 placeDetails, nullDetails, detailsAsked, vibesAtStart, venuesAtStart,
                 fatalCause, prevLog, lostScore, lookupFailed, attemptLog, searchThrew, centroidBad, detailCalls,
                 detailOks, callsAfterOk, cacheHits, slept, requests, faults,
                 storeVars, classifyVars, limiterVars, fnVars>>

\* scoreVibes, lines 63-64, and processCell, lines 324-332
LlmDone ==
  /\ pc = "processing" /\ cpc = "scoring" /\ rPc = "returned"
  /\ withRetryLeave
  /\ LET agg == ReviewsOf(placeDetails)
         out == ScoringOutcome(LlmOutput(agg.textLen), agg.count)
     IN IF out.failed
        THEN FailCell(cell, "llm: parse failed")
        ELSE /\ pendingRow' = out.row
             /\ cpc' = "vibes_delete"
             /\ UNCHANGED <<pc, failedCells, typeIdx, allPlaces, rankedVenues,
                            topVenues, detIdx, placeDetails, nullDetails, detailsAsked>>
  /\ UNCHANGED <<runNo, argv, options, cells, processed, detailsCache,
                 storeVars, historyVars, classifyVars, limiterVars, fnVars>>

\* scoreVibes: withRetry threw, the error leaves processCell
LlmFailed ==
  /\ pc = "processing" /\ cpc = "scoring" /\ rPc = "thrown"
  /\ withRetryLeave
  /\ FailCell(cell, "llm: request failed")
  /\ UNCHANGED <<runNo, argv, options, cells, processed, detailsCache,
                 storeVars, historyVars, classifyVars, limiterVars, fnVars>>

\* upsertCellVibes, lines 208-214: nothing in a dry run; otherwise the delete,
\* whose error is not read
VibesDelete ==
  /\ pc = "processing" /\ cpc = "vibes_delete"
  /\ IF DryRun
     THEN ResetCell("between") /\ UNCHANGED <<cellVibes, faults>>
     ELSE /\ \E deleteOk \in BOOLEAN :
               /\ Inject(deleteOk)
               /\ cellVibes' = IF deleteOk THEN [cellVibes EXCEPT ![cell] = <<>>]
                               ELSE cellVibes
          /\ cpc' = "vibes_insert"
          /\ UNCHANGED <<typeIdx, allPlaces, rankedVenues, topVenues, detIdx,
                         placeDetails, nullDetails, detailsAsked, pendingRow>>
  /\ UNCHANGED <<venues, runVars, vibesAtStart, venuesAtStart, fatalCause,
                 prevLog, lostScore, lookupFailed, attemptLog, touched, inserted, venuesFailed, callLog, searchThrew, centroidBad,
                 detailCalls, detailOks, callsAfterOk, cacheHits, slept, requests, slots,
                 classifyVars, retryVars, limiterVars, fnVars>>

\* upsertCellVibes putting the deleted record back when the insert fails, as
\* a transaction would, used to test C39
AfterFailedInsert_Restored(rows, prior) == prior

\* upsertCellVibes, lines 211-222: delete and insert are two requests; a
\* failed insert leaves the rows as the delete left them
AfterFailedInsert(rows, prior) == rows

\* upsertCellVibes logging the insert's error as upsertVenues does, used to
\* test C36
OnInsertError_Logged == "log"

\* upsertCellVibes, lines 219-222: the insert's error is logged and thrown
OnInsertError == "throw"

\* upsertCellVibes, lines 217-222: the insert; its error is thrown
VibesInsert ==
  /\ pc = "processing" /\ cpc = "vibes_insert"
  /\ \E insertOk \in BOOLEAN :
       /\ Inject(insertOk)
       /\ IF insertOk
          THEN /\ cellVibes' = [cellVibes EXCEPT ![cell] = Append(@, pendingRow)]
               /\ inserted' = inserted \cup {cell}
               /\ lostScore' = lostScore \ {cell}
               /\ ResetCell("between")
               /\ UNCHANGED <<pc, failedCells>>
          ELSE /\ IF OnInsertError = "throw"
                  THEN FailCell(cell, "insert: store error")
                  ELSE ResetCell("between") /\ UNCHANGED <<pc, failedCells>>
               /\ cellVibes' =
                    [cellVibes EXCEPT
                       ![cell] = AfterFailedInsert(@, vibesAtStart[cell])]
               /\ lostScore' = IF cellVibes[cell] = <<>> /\ vibesAtStart[cell] # <<>>
                               THEN lostScore \cup {cell} ELSE lostScore
               /\ UNCHANGED inserted
  /\ UNCHANGED <<venues, runNo, argv, options, cells, processed, detailsCache,
                 vibesAtStart, venuesAtStart, fatalCause, prevLog, attemptLog,
                 touched, venuesFailed, lookupFailed, callLog, searchThrew, centroidBad, detailCalls, detailOks,
                 callsAfterOk, cacheHits, slept, requests, slots, classifyVars, retryVars,
                 limiterVars, fnVars>>

\* main with the delay only after a cell that succeeded, used to test C33
SleepDue_AfterSuccess(n, total, failed) == n < total /\ ~failed

\* main, lines 390-393: the delay is taken after every cell but the last,
\* whether processCell returned or threw
SleepDue(n, total, failed) == n < total

\* main, lines 390-394: the delay between cells has elapsed
NextCell ==
  /\ pc = "processing" /\ cpc = "between"
  /\ processed < Len(cells)
  /\ cpc' = "begin"
  /\ slept' = IF SleepDue(processed, Len(cells),
                          \E i \in 1..Len(failedCells) :
                            failedCells[i].cellId = cells[processed])
              THEN slept + RATE_LIMITS.betweenCells.delayMs
              ELSE slept
  /\ UNCHANGED <<storeVars, runVars, typeIdx, allPlaces, rankedVenues,
                 topVenues, detIdx, placeDetails, nullDetails, detailsAsked, pendingRow,
                 vibesAtStart, attemptLog, touched, inserted, venuesFailed, searchThrew, centroidBad,
                 detailCalls, detailOks, callsAfterOk, cacheHits, faults,
                 venuesAtStart, fatalCause, callLog, prevLog, lostScore, lookupFailed, requests, slots,
                 classifyVars, retryVars, limiterVars,
                 fnVars>>

\* The process is terminated from outside during the delay between cells.
Kill ==
  /\ pc = "processing" /\ cpc = "between"
  /\ processed < Len(cells)
  /\ pc' = "killed" /\ cpc' = "none"
  /\ UNCHANGED <<storeVars, runNo, argv, options, cells, processed, failedCells,
                 detailsCache, typeIdx, allPlaces, rankedVenues, topVenues,
                 detIdx, placeDetails, nullDetails, detailsAsked, pendingRow, historyVars,
                 classifyVars, retryVars, limiterVars, fnVars>>

\* main, lines 396-408: the summary and saveFailedCells
Summarize ==
  /\ pc = "processing" /\ cpc = "between"
  /\ processed = Len(cells)
  /\ pc' = "done" /\ cpc' = "none"
  /\ UNCHANGED <<storeVars, runNo, argv, options, cells, processed, failedCells,
                 detailsCache, typeIdx, allPlaces, rankedVenues, topVenues,
                 detIdx, placeDetails, nullDetails, detailsAsked, pendingRow, historyVars,
                 classifyVars, retryVars, limiterVars, fnVars>>

\* Every step of a run after its start.
RunNext ==
  \/ LoadCells \/ BeginCell
  \/ SearchCall \/ RequestOk \/ RequestFails \/ RequestBackoffDone
  \/ SearchDone \/ SearchFailed \/ PersistVenues
  \/ DetailsCacheHit \/ DetailsCall \/ DetailsDone \/ DetailsFailed
  \/ AggregateAndScore \/ LlmDone \/ LlmFailed
  \/ VibesDelete \/ VibesInsert
  \/ NextCell \/ Kill \/ Summarize

Init == ClassifyIdle /\ RetryIdle /\ LimiterIdle /\ PipelineIdle /\ FnIdle

Next == StartRun \/ RunNext

Spec == Init /\ [][Next]_vars

(***************************************************************************)
(* Properties of the orchestrator.                                         *)
(***************************************************************************)
\* C6 as stated: within one run the external detail fetch is issued at most
\* once per place id, whether the earlier fetch succeeded or failed.
C6_OneFetchPerId ==
  \A v \in PlaceIds : detailCalls[v] <= 1

\* C6, amended: within one run a place id is fetched successfully at most
\* once, it is in the cache exactly when a fetch for it has succeeded, and
\* once a fetch for it has succeeded no further fetch is issued for it.  (A
\* failed fetch is not cached and the id is fetched again by a later cell.)
C6_OneSuccessfulFetchPerId ==
  \A v \in PlaceIds :
    /\ detailOks[v] <= 1
    /\ (v \in detailsCache <=> detailOks[v] = 1)
    /\ callsAfterOk[v] = 0

\* Cell 2 is served place B from the cache after cell 1 fetched it.
C6_Witness ==
  /\ cacheHits >= 1 /\ detailOks["B"] = 1 /\ detailCalls["B"] = 1
  /\ processed = 2 /\ cpc = "between"

\* C7: a failed detail fetch returns null and the loop over the top venues
\* goes on (every top venue is either collected or counted null), no ledger
\* record comes from a detail fetch, and a cell whose detail fetches all
\* failed reaches the score write with the all-null row (no review, no
\* model), which a successful insert persists.
C7_DetailsFailureDegrades ==
  /\ \A i \in 1..Len(failedCells) : failedCells[i].error # "details: request failed"
  /\ cpc \in {"details", "fetching"} =>
       detIdx - 1 = Len(placeDetails) + nullDetails
  /\ (cpc \in {"aggregate", "scoring", "vibes_delete", "vibes_insert"}
        /\ topVenues # <<>>) =>
       Len(topVenues) = Len(placeDetails) + nullDetails
  /\ (cpc \in {"vibes_delete", "vibes_insert"} /\ topVenues # <<>>
        /\ nullDetails = Len(topVenues)) =>
       pendingRow = NoRow

\* Cell 2's only detail fetch (place B) failed; the cell is not in the ledger
\* and its all-null row has been written by this run.
C7_Witness ==
  /\ pc = "processing" /\ cpc = "between" /\ cell = 2
  /\ detailCalls["B"] >= 1 /\ detailOks["B"] = 0
  /\ \A i \in 1..Len(failedCells) : failedCells[i].cellId # 2
  /\ vibesAtStart[2] = <<>> /\ cellVibes[2] = <<NoRow>>

\* C8: the cells attempted so far are the first `processed` cells of the
\* selected list, in list order, each once; the run ends (summary) only after
\* the whole list was attempted, and exits early only before the list exists;
\* every ledger record names an attempted cell and no cell has two records.
C8_FailureIsolation ==
  /\ processed <= Len(cells)
  /\ attemptLog = SubSeq(cells, 1, processed)
  /\ pc = "done" => processed = Len(cells) /\ attemptLog = cells
  /\ pc = "fatal" => cells = <<>>
  /\ Len(failedCells) <= processed
  /\ \A i \in 1..Len(failedCells) :
       /\ \E j \in 1..processed : attemptLog[j] = failedCells[i].cellId
       /\ \A k \in 1..Len(failedCells) :
            failedCells[k].cellId = failedCells[i].cellId => k = i

\* The first of two cells failed, the second was still attempted.
C8_Witness ==
  /\ pc = "done" /\ Len(cells) = 2 /\ attemptLog = cells
  /\ Len(failedCells) = 1 /\ failedCells[1].cellId = cells[1]

\* C9 as stated: a cell whose search failed with a terminal error has no
\* record in the scored set after the run.
C9_SearchFailureLeavesNoScore ==
  pc = "done" => \A c \in searchThrew : cellVibes[c] = <<>>

\* C9, amended: a cell whose search failed with a terminal error has a record
\* in the failure ledger and this run writes no score record for it: its
\* records are those it had when the run started (none, if it had none).
C9_SearchFailureWritesNoScore ==
  \A c \in searchThrew :
    /\ \E i \in 1..Len(failedCells) : failedCells[i].cellId = c
    /\ cellVibes[c] = vibesAtStart[c]

\* A forced run ended with a cell whose search failed and whose earlier score
\* record is still in place.
C9_Witness ==
  /\ pc = "done" /\ options.force
  /\ \E c \in searchThrew : vibesAtStart[c] # <<>> /\ cellVibes[c] = vibesAtStart[c]

\* C10: in a run without force, no external call is issued for a cell that
\* had a score record when the run started, and its records are unchanged.
C10_ScoredCellsSkipped ==
  (runNo > 0 /\ ~options.force) =>
    \A c \in GridCells :
      vibesAtStart[c] # <<>> => c \notin touched /\ cellVibes[c] = vibesAtStart[c]

\* C11: after any sequence of runs every cell has at most one record in
\* cell_vibes.
C11_AtMostOneRecordPerCell ==
  \A c \in GridCells : Len(cellVibes[c]) <= 1

\* The classifier operations logged for cell c in the current run.
LlmCallsFor(c) ==
  Cardinality({i \in 1..Len(callLog) : callLog[i].kind = "llm" /\ callLog[i].cell = c})

\* C12 as stated: at most one classifier request per cell per run, the
\* requests re-issued by withRetry included.
C12_OneClassifierRequestPerCell ==
  /\ \A c \in GridCells : LlmCallsFor(c) <= 1
  /\ caller = "llm" => calls <= 1

\* C12, amended: at most one classifier operation (scoreVibes) is started per
\* cell per run; that operation sends one request, then one more after each
\* retryable failure, and never more than maxRetries + 1 requests.
C12_OneClassifierOperationPerCell ==
  /\ \A c \in GridCells : LlmCallsFor(c) <= 1
  /\ caller = "llm" =>
       /\ calls <= RETRY_CONFIG.maxRetries + 1
       /\ calls <= Len(retryLog) + 1
       /\ \A i \in 1..Len(retryLog) : Retryable(retryLog[i][2])

\* The classifier operation of a cell has sent its last allowed request.
C12_Witness ==
  /\ caller = "llm" /\ calls = RETRY_CONFIG.maxRetries + 1
  /\ LlmCallsFor(cell) = 1


(***************************************************************************)
(* SpecDry: a dry run followed by the same run without the flag.  Runs go  *)
(* in pairs: an odd run is a dry run with any force and limit, the even    *)
(* run after it repeats its options with dryRun off.  The store at the     *)
(* start is empty or holds the result of an earlier `--limit 1` run.       *)
(***************************************************************************)
\* searchAllTypes, lines 94-114, over the first t place types, when no
\* request fails
RECURSIVE searchAllTypes(_, _)
searchAllTypes(c, t) ==
  IF t = 0 THEN <<>>
  ELSE MergeUnseen(searchAllTypes(c, t - 1), NearbyPlaces(c, t))

\* processCell, lines 256-332, when no request fails: the venues upserted
\* and the score row written for cell c
processCellResult(c) ==
  LET ranked == rankVenues(filterQualifiedVenues(searchAllTypes(c, NumTypes),
                                                 MIN_REVIEW_COUNT))
      top == TopVenues(ranked)
      agg == ReviewsOf(top)
  IN [ranked |-> ranked,
      row |-> IF top = <<>> \/ agg.textLen = 0
              THEN [scores |-> emptyVibeScores,
                    source_review_count |-> agg.count, model_name |-> Null]
              ELSE ScoringOutcome(LlmOutput(agg.textLen), agg.count).row]

EmptyStore ==
  [venues |-> [v \in PlaceIds |-> 0], cellVibes |-> [c \in GridCells |-> <<>>]]

\* The store after one run with --limit 1 in which nothing failed.
StoreAfterFirstCell ==
  LET r == processCellResult(AreaCells[1])
  IN [venues |-> [v \in PlaceIds |->
                    IF \E i \in 1..Len(r.ranked) : r.ranked[i] = v
                    THEN AreaCells[1] ELSE 0],
      cellVibes |-> [c \in GridCells |->
                       IF c = AreaCells[1] THEN <<r.row>> ELSE <<>>]]

\* prevLog when the run before did not end faultless
NoLog == <<Call("none", 0, "", 0)>>

PairInit ==
  /\ ClassifyIdle /\ RetryIdle /\ LimiterIdle /\ FnIdle
  /\ \E st \in {EmptyStore, StoreAfterFirstCell} :
       PipelineIdleOn(st.venues, st.cellVibes)

\* main, lines 342-360, for the runs of a pair
PairStart ==
  /\ pc \in {"idle", "done", "fatal", "killed"}
  /\ runNo < MaxRuns
  /\ runNo' = runNo + 1
  /\ IF runNo % 2 = 0
     THEN /\ \E a \in ValidArgLists :
               Includes(a, "--dry-run") /\ StartRunOn(a)
          /\ prevLog' = NoLog
     ELSE /\ StartRunOn(SelectSeq(argv, LAMBDA w : w # "--dry-run"))
          /\ prevLog' = IF pc = "done" /\ faults = 0 THEN callLog ELSE NoLog
  /\ cells' = <<>> /\ processed' = 0 /\ failedCells' = <<>>
  /\ detailsCache' = {}
  /\ ResetCell("none")
  /\ lostScore' = lostScore /\ lookupFailed' = FALSE
  /\ vibesAtStart' = cellVibes /\ attemptLog' = <<>> /\ touched' = {} /\ inserted' = {} /\ venuesFailed' = {}
  /\ searchThrew' = {} /\ centroidBad' = {}
  /\ detailCalls' = [v \in PlaceIds |-> 0] /\ detailOks' = [v \in PlaceIds |-> 0]
  /\ callsAfterOk' = [v \in PlaceIds |-> 0]
  /\ cacheHits' = 0 /\ slept' = 0 /\ requests' = 0 /\ slots' = NoSlots
  /\ venuesAtStart' = venues
  /\ callLog' = <<>>
  /\ UNCHANGED <<storeVars, classifyVars, retryVars, limiterVars, fnVars>>

PairNext == PairStart \/ RunNext

SpecDry == PairInit /\ [][PairNext]_vars

\* C13: a dry run leaves venues and cell_vibes as they were when it started;
\* and the run that repeats a completed, faultless dry run without the flag,
\* when itself completed and faultless, has issued the same sequence of
\* search, detail and classifier calls.
C13_DryRunWritesNothingSameCalls ==
  /\ (runNo > 0 /\ options.dryRun) =>
       venues = venuesAtStart /\ cellVibes = vibesAtStart
  /\ (runNo > 0 /\ ~options.dryRun /\ prevLog # NoLog /\ faults = 0) =>
       /\ Len(callLog) <= Len(prevLog)
       /\ callLog = SubSeq(prevLog, 1, Len(callLog))
       /\ pc = "done" => callLog = prevLog

\* The repeat of a dry run has ended: same calls, and this time the store
\* was written.
C13_Witness ==
  /\ pc = "done" /\ ~options.dryRun /\ prevLog # NoLog /\ faults = 0
  /\ Len(callLog) >= 3 /\ callLog = prevLog
  /\ cellVibes # vibesAtStart /\ venues # venuesAtStart


\* The stages of processCell that follow upsertVenues (line 278)
AfterUpsertVenues ==
  /\ pc = "processing"
  /\ cpc \in {"details", "fetching", "aggregate", "scoring", "vibes_delete",
              "vibes_insert"}

Qualified(v) == Place[v].userRatingCount >= MIN_REVIEW_COUNT

\* C14 as stated: once a cell's venues have been upserted in a run that is
\* not a dry run and in which no request failed, every place its search
\* returned has a venues row of that cell, below-threshold places included.
C14_AllDiscoveredPersisted ==
  (AfterUpsertVenues /\ ~options.dryRun /\ faults = 0) =>
    \A i \in 1..Len(allPlaces) : venues[allPlaces[i]] = cell

\* C14, amended: only the places that reach the review threshold are
\* persisted.  After upsertVenues in a run that is not a dry run and in which
\* no request failed, every qualified place of the cell's search has a venues
\* row of that cell; a place below the threshold never has a venues row.
C14_QualifiedVenuesPersisted ==
  /\ \A v \in PlaceIds : venues[v] # 0 => Qualified(v)
  /\ (AfterUpsertVenues /\ ~options.dryRun /\ faults = 0) =>
       \A i \in 1..Len(allPlaces) :
         Qualified(allPlaces[i]) <=> venues[allPlaces[i]] = cell

\* Cell 1's search returned A, B and C; A and B were persisted for the cell
\* and C, with 5 ratings, was not.
C14_Witness ==
  /\ AfterUpsertVenues /\ ~options.dryRun /\ faults = 0
  /\ Len(allPlaces) = 3
  /\ venues["A"] = cell /\ venues["B"] = cell /\ venues["C"] = 0


(***************************************************************************)
(* SpecSkip: runs started with `--skip 1` on the command line, as the      *)
(* README describes it (Skipping Ocean Cells).                             *)
(***************************************************************************)
SkipArgLists ==
  {ArgsFor("san-francisco", f, FALSE, l) \o <<"--skip", "1">> :
     f \in BOOLEAN, l \in Limits}

\* The N of `--skip N` on a command line; 0 when the option is not given
SkipCount(args) ==
  LET skipIndex == IndexOf(args, "--skip")
  IN IF skipIndex # 0 /\ skipIndex + 1 <= Len(args)
        /\ parseInt(args[skipIndex + 1]) # NaN
     THEN parseInt(args[skipIndex + 1])
     ELSE 0

SkipStart ==
  /\ pc \in {"idle", "done", "fatal", "killed"}
  /\ runNo < MaxRuns
  /\ runNo' = runNo + 1
  /\ \E a \in SkipArgLists : StartRunOn(a)
  /\ cells' = <<>> /\ processed' = 0 /\ failedCells' = <<>>
  /\ detailsCache' = {}
  /\ ResetCell("none")
  /\ vibesAtStart' = cellVibes /\ attemptLog' = <<>> /\ touched' = {} /\ inserted' = {} /\ venuesFailed' = {}
  /\ searchThrew' = {} /\ centroidBad' = {}
  /\ detailCalls' = [v \in PlaceIds |-> 0] /\ detailOks' = [v \in PlaceIds |-> 0]
  /\ callsAfterOk' = [v \in PlaceIds |-> 0]
  /\ cacheHits' = 0 /\ slept' = 0 /\ requests' = 0 /\ slots' = NoSlots
  /\ venuesAtStart' = venues
  /\ callLog' = <<>> /\ prevLog' = prevLog /\ lostScore' = lostScore
  /\ lookupFailed' = FALSE
  /\ UNCHANGED <<storeVars, classifyVars, retryVars, limiterVars, fnVars>>

SkipNext == SkipStart \/ RunNext

SpecSkip == Init /\ [][SkipNext]_vars

\* The area's ordered cell list of this run once the cells scored at its
\* start are subtracted (not subtracted under --force)
CandidateCells ==
  IF options.force THEN CityCells(options.citySlug)
  ELSE Unprocessed(CityCells(options.citySlug),
                   {c \in GridCells : vibesAtStart[c] # <<>>})

\* C15: a run started with `--skip N`, in which no request fails, processes
\* none of the first N cells of the area's ordered list (scored cells
\* subtracted first when the run is not forced).
C15_SkippedCellsNotProcessed ==
  (runNo > 0 /\ faults = 0 /\ pc # "fatal") =>
    \A i \in 1..Min(SkipCount(argv), Len(CandidateCells)) :
      \A j \in 1..Len(attemptLog) : attemptLog[j] # CandidateCells[i]


\* The search of cell c returns no place that reaches the review threshold.
ZeroQualifiedCells ==
  {c \in GridCells :
     filterQualifiedVenues(searchAllTypes(c, NumTypes), MIN_REVIEW_COUNT) = <<>>}

ZeroQualified(c) == c \in ZeroQualifiedCells

Failed(c) == \E i \in 1..Len(failedCells) : failedCells[i].cellId = c

\* C16: a cell with no qualified venue goes from upsertVenues straight to the
\* score write with the all-null row (review count 0, no model); no detail
\* fetch and no classifier call is issued for it; and once the cell is done
\* without a ledger record in a run that is not a dry run, that row is the
\* cell's latest persisted score record.
C16_EmptyCellGetsNullRow ==
  /\ (AfterUpsertVenues /\ rankedVenues = <<>>) =>
       /\ cpc \in {"vibes_delete", "vibes_insert"}
       /\ pendingRow = NoRow
       /\ placeDetails = <<>>
  /\ \A i \in 1..Len(callLog) :
       ZeroQualified(callLog[i].cell) => callLog[i].kind = "search"
  /\ (pc = "processing" /\ cpc = "between" /\ processed > 0
        /\ ZeroQualified(cell) /\ ~options.dryRun /\ ~Failed(cell)) =>
       /\ cellVibes[cell] # <<>>
       /\ cellVibes[cell][Len(cellVibes[cell])] = NoRow

\* Cell 3, whose search returns only the little-reviewed C, has been
\* processed: its all-null row is stored, and the run's calls for it are its
\* searches only.
C16_Witness ==
  /\ pc = "processing" /\ cpc = "between" /\ cell = 3
  /\ ZeroQualified(3) /\ ~options.dryRun /\ ~Failed(3)
  /\ cellVibes[3] = <<NoRow>>
  /\ \E i \in 1..Len(callLog) : callLog[i].cell = 3


\* C17: a forced run that is not a dry run has processed, without a ledger
\* record, a cell that held exactly the record of an earlier faultless
\* processing, and has written that same record again (the upstream answers
\* were the same): the cell then holds exactly that one record.
C17_ForcedRerunLeavesOneRecord ==
  (/\ pc = "processing" /\ cpc = "between" /\ processed > 0
   /\ options.force /\ ~options.dryRun /\ ~Failed(cell)
   /\ vibesAtStart[cell] = <<processCellResult(cell).row>>
   /\ cellVibes[cell] # <<>>
   /\ cellVibes[cell][Len(cellVibes[cell])] = processCellResult(cell).row) =>
    cellVibes[cell] = vibesAtStart[cell]


\* The command line names no city, is rejected by parseArgs, or names a city
\* that is not in the cities table.
BadSelectors ==
  {a \in ArgLists :
     \/ ~parseArgs(a).ok
     \/ parseArgs(a).options.citySlug \notin Cities}

BadSelector(args) == args \in BadSelectors

\* C18: a run with a missing credential, a missing or invalid selector, or a
\* city that cannot be resolved has exited: no cell list exists, no cell was
\* attempted, no search, detail or classifier call was issued, and venues and
\* cell_vibes are as they were when the run started.
C18_FatalConfigAbortsBeforeCells ==
  /\ (runNo > 0 /\ BadSelector(argv)) => fatalCause \in {"env", "args", "city"}
  /\ fatalCause \in {"env", "args", "city"} =>
       /\ pc = "fatal" /\ cpc = "none"
       /\ cells = <<>> /\ processed = 0 /\ attemptLog = <<>>
       /\ callLog = <<>> /\ touched = {}
       /\ venues = venuesAtStart /\ cellVibes = vibesAtStart

\* A second run, over a store that holds scores, named a city that does not
\* exist and has exited.
C18_Witness ==
  /\ runNo = 2 /\ pc = "fatal" /\ fatalCause = "city"
  /\ argv = <<"atlantis">>
  /\ callLog = <<>> /\ cellVibes[1] # <<>>

(***************************************************************************)
(* SpecParse: parseVibeScores, as scoreVibes and processCell use it,       *)
(* applied to one classifier output.  The outputs are the text without a   *)
(* brace, the text whose braces hold no valid JSON, and the JSON objects   *)
(* in which the first VariedDims dimensions take any value of JsonValues   *)
(* and the other dimensions share one.                                     *)
(***************************************************************************)
VariedDims == 2

JsonNumbers == {-500, -1, 0, 4, 5, 504, 994, 995, 1000, 1001, 2000}

JsonValues ==
  {JsonNumber(n) : n \in JsonNumbers}
    \cup {JsonOther(t) : t \in {"string", "boolean", "object", "undefined"}}

FieldSets ==
  {[d \in 1..Len(VIBE_DIMENSIONS) |-> IF d <= VariedDims THEN f[d] ELSE z] :
     f \in [1..VariedDims -> JsonValues], z \in JsonValues}

OutputTexts == {PlainText, BrokenJson} \cup {JsonObject(f) : f \in FieldSets}

ParseInit ==
  /\ ClassifyIdle /\ RetryIdle /\ LimiterIdle /\ PipelineIdle
  /\ AggregateIdle /\ RankIdle
  /\ pRaw = <<>> /\ pText \in OutputTexts /\ pOut = NoOut

ParseOutput ==
  /\ ~pOut.done
  /\ LET out == ScoringOutcome(pText, 1)
     IN pOut' = [done |-> TRUE, failed |-> out.failed, row |-> out.row]
  /\ UNCHANGED <<pRaw, pText, aggVars, rankVars, classifyVars, retryVars,
                 limiterVars, pipelineVars>>

ParseNext == ParseOutput

SpecParse == ParseInit /\ [][ParseNext]_vars

Malformed(text) == ~text.braces \/ ~text.wellFormed

\* A dimension value of a score set: null, or a number of hundredths
WellFormedScore(x) == x = NullScore \/ (x[1] >= 0 /\ x[1] <= 100)

\* C19: whatever the raw output (no JSON object, invalid JSON, an object
\* with missing or wrongly typed fields), parseVibeScores returns: the cell
\* is not failed and gets a row with the model's name whose score set has
\* one entry per dimension, each null or a number; a malformed output gives
\* the all-null set, and in an object a dimension is null exactly when its
\* value is missing, not a number or out of range.
C19_ParsingNeverThrows ==
  pOut.done =>
    /\ ~pOut.failed
    /\ pOut.row.model_name = LLM_MODEL
    /\ DOMAIN pOut.row.scores = 1..Len(VIBE_DIMENSIONS)
    /\ \A d \in 1..Len(VIBE_DIMENSIONS) : WellFormedScore(pOut.row.scores[d])
    /\ Malformed(pText) => pOut.row.scores = emptyVibeScores
    /\ ~Malformed(pText) =>
         \A d \in 1..Len(VIBE_DIMENSIONS) :
           pOut.row.scores[d] = NullScore <=>
             ~(/\ pText.fields[d].type = "number"
               /\ pText.fields[d].value \in 0..1000)

\* The output with invalid JSON between its braces has been parsed: all
\* dimensions null, no failure.
C19_Witness ==
  /\ pOut.done /\ pText = BrokenJson
  /\ ~pOut.failed /\ pOut.row.scores = emptyVibeScores


\* What the accept rule gives for one JSON value: the number rounded to
\* hundredths when it is a number within [0,1], null otherwise.
ExpectedScore(v) ==
  IF v.type = "number" /\ v.value \in 0..1000
  THEN ScoreOf(RoundScore(v.value))
  ELSE NullScore

\* The loop body of parseVibeScores follows the accept rule, and gives null
\* or a number within [0,1], on every value of JsonValues.
AcceptRuleOnAllValues ==
  \A v \in JsonValues :
    /\ ParseDimension(v) = ExpectedScore(v)
    /\ WellFormedScore(ParseDimension(v))

\* C20: every dimension of every score record in cell_vibes, and of the
\* record about to be written, is null or a number within [0,1]; and in the
\* record built from a classifier answer each dimension is the answer's
\* value rounded to two decimals when that value is a number within [0,1],
\* and null otherwise, whatever the other dimensions hold.  The first
\* conjunct states the rule for every value of JsonValues (negative, above 1,
\* string, boolean, null, missing).
C20_ScoresNullOrInUnitRange ==
  /\ AcceptRuleOnAllValues
  /\ \A c \in GridCells : \A i \in 1..Len(cellVibes[c]) :
       \A d \in 1..Len(VIBE_DIMENSIONS) : WellFormedScore(cellVibes[c][i].scores[d])
  /\ \A d \in 1..Len(VIBE_DIMENSIONS) : WellFormedScore(pendingRow.scores[d])
  /\ (pc = "processing" /\ cpc \in {"vibes_delete", "vibes_insert"}
        /\ pendingRow.model_name = LLM_MODEL) =>
       LET text == LlmOutput(ReviewsOf(placeDetails).textLen)
       IN \A d \in 1..Len(VIBE_DIMENSIONS) :
            pendingRow.scores[d] =
              IF Malformed(text) THEN NullScore ELSE ExpectedScore(text.fields[d])

\* Cell 1's classifier answer had lively 0.504, social 2, a string for
\* upscale, no casual and trendy 0.995: the stored record has 0.5, null,
\* null, null and 1.
C20_Witness ==
  /\ cellVibes[1] # <<>>
  /\ cellVibes[1][1].model_name = LLM_MODEL
  /\ cellVibes[1][1].scores[1] = ScoreOf(50)
  /\ cellVibes[1][1].scores[2] = NullScore
  /\ cellVibes[1][1].scores[3] = NullScore
  /\ cellVibes[1][1].scores[4] = NullScore
  /\ cellVibes[1][1].scores[5] = ScoreOf(100)


(***************************************************************************)
(* SpecAggregate: aggregateReviews applied to one list of place details.   *)
(* The lists hold MaxPlaces places and at most MaxReviews reviews in all,  *)
(* spread over the places in every way; a review text is missing, blank,   *)
(* or a string (with or without whitespace around it) whose length makes   *)
(* one, two or no text fit the budget.                                     *)
(***************************************************************************)
MaxReviews == 3
MaxPlaces == 2

ReviewTextValues ==
  {Undefined, Str(2, 0, 1), Str(0, 1, 0), Str(1, 3000, 1), Str(0, 3998, 0),
   Str(0, 4000, 0), Str(1, 7999, 0)}

\* The reviews of place p when review i belongs to place tags[i]
ReviewsAt(p, tags, texts) ==
  LET own == SelectSeq([i \in 1..Len(tags) |-> <<tags[i], texts[i]>>],
                       LAMBDA x : x[1] = p)
  IN [i \in 1..Len(own) |-> own[i][2]]

\* A list of details; bare: a place with no review lacks the reviews field
DetailsList(tags, texts, bare) ==
  [p \in 1..MaxPlaces |->
     IF bare /\ ReviewsAt(p, tags, texts) = <<>> THEN WithoutReviews
     ELSE WithReviews(ReviewsAt(p, tags, texts))]

\* The ways of spreading n reviews over the places, in place order
Spreads(n) ==
  {t \in [1..n -> 1..MaxPlaces] : \A i \in 1..(n - 1) : t[i] <= t[i + 1]}

AggregateInit ==
  /\ ClassifyIdle /\ RetryIdle /\ LimiterIdle /\ PipelineIdle /\ ParseIdle
  /\ RankIdle
  /\ \E n \in 0..MaxReviews :
       \E tags \in Spreads(n), texts \in [1..n -> ReviewTextValues],
          bare \in BOOLEAN :
         aIn = DetailsList(tags, texts, bare)
  /\ aOut = NoAggregate

Aggregate ==
  /\ ~aOut.done
  /\ LET out == aggregateReviews(aIn)
     IN aOut' = [done |-> TRUE, parts |-> out.parts, textLen |-> out.textLen,
                 count |-> out.count]
  /\ UNCHANGED <<aIn, parseVars, rankVars, classifyVars, retryVars,
                 limiterVars, pipelineVars>>

AggregateNext == Aggregate

SpecAggregate == AggregateInit /\ [][AggregateNext]_vars

\* Every review text of the list, in detail order
RECURSIVE AllReviewTexts(_)
AllReviewTexts(details) ==
  IF details = <<>> THEN <<>>
  ELSE Head(details).reviews \o AllReviewTexts(Tail(details))

\* The non-empty snippets of the list, trimmed, in detail order
Snippets(details) ==
  LET kept == SelectSeq(AllReviewTexts(details),
                        LAMBDA t : t.defined /\ t.body > 0)
  IN [i \in 1..Len(kept) |-> Str(0, kept[i].body, 0)]

\* The length of the snippets joined by a blank line
RECURSIVE JoinedLength(_)
JoinedLength(snippets) ==
  IF snippets = <<>> THEN 0
  ELSE IF Len(snippets) = 1 THEN Head(snippets).body
       ELSE Head(snippets).body + 2 + JoinedLength(Tail(snippets))

\* C21: for every list of details, the text aggregateReviews returns is at
\* most MAX_CHARS (8000) characters long, is made of whole trimmed snippets,
\* a prefix of the list's non-empty snippets in detail order joined by a
\* blank line, and the count returned is the number of all the non-empty
\* snippets of the list, embedded in the text or not.
C21_AggregateWithinBudgetWholeSnippets ==
  aOut.done =>
    /\ aOut.textLen <= MAX_CHARS
    /\ \E k \in 0..Len(Snippets(aIn)) :
         aOut.parts = SubSeq(Snippets(aIn), 1, k)
    /\ aOut.textLen = JoinedLength(aOut.parts)
    /\ aOut.count = Len(Snippets(aIn))

\* Three snippets of 4000, 4000 and 1 characters: the text holds the first
\* one only (the third would fit but follows the one that did not), the count
\* is 3.
C21_Witness ==
  /\ aOut.done /\ aOut.count = 3
  /\ Len(aOut.parts) = 1 /\ aOut.textLen = 4000
  /\ Snippets(aIn)[2].body = 4000 /\ Snippets(aIn)[3].body = 1


(***************************************************************************)
(* SpecRank: rankVenues applied to one list of venues, every list of at    *)
(* most MaxVenues different venues of TestVenues in every order.           *)
(***************************************************************************)
MaxVenues == 3

VenueLists ==
  UNION {{q \in [1..n -> DOMAIN TestVenues] :
            \A i, j \in 1..n : q[i] = q[j] => i = j} : n \in 0..MaxVenues}

RankInit ==
  /\ ClassifyIdle /\ RetryIdle /\ LimiterIdle /\ PipelineIdle
  /\ ParseIdle /\ AggregateIdle
  /\ rankIn \in VenueLists /\ rankOut = NoRanking

Rank ==
  /\ ~rankOut.done
  /\ rankOut' = [done |-> TRUE, ranked |-> rankVenues(rankIn)]
  /\ UNCHANGED <<rankIn, parseVars, aggVars, classifyVars, retryVars,
                 limiterVars, pipelineVars>>

RankNext == Rank

SpecRank == RankInit /\ [][RankNext]_vars

\* 0.7 * ratingCount + 0.3 * rating in hundredths (ratings are held in
\* tenths), a missing value counted as 0
Composite(v) ==
  LET p == TestVenues[v]
      count == IF p.userRatingCount = Absent THEN 0 ELSE p.userRatingCount
      rating == IF p.rating = Absent THEN 0 ELSE p.rating
  IN 70 * count + 3 * rating

\* The position of venue v in the list q
PositionIn(q, v) == CHOOSE i \in 1..Len(q) : q[i] = v

\* C22: rankVenues returns a permutation of its input in non-increasing
\* order of the composite score 0.7 * ratingCount + 0.3 * rating (a missing
\* value counted as 0), venues of equal composite score staying in their
\* input order; V2 (rating 1, count 100) comes before V1 (rating 5, count 1).
C22_RankedByCompositeStable ==
  rankOut.done =>
    /\ Len(rankOut.ranked) = Len(rankIn)
    /\ \A i \in 1..Len(rankIn) :
         \E j \in 1..Len(rankOut.ranked) : rankOut.ranked[j] = rankIn[i]
    /\ \A i, j \in 1..Len(rankOut.ranked) :
         i < j =>
           /\ Composite(rankOut.ranked[i]) >= Composite(rankOut.ranked[j])
           /\ Composite(rankOut.ranked[i]) = Composite(rankOut.ranked[j]) =>
                PositionIn(rankIn, rankOut.ranked[i])
                  < PositionIn(rankIn, rankOut.ranked[j])
    /\ (\E i, j \in 1..Len(rankIn) : rankIn[i] = "V1" /\ rankIn[j] = "V2") =>
         PositionIn(rankOut.ranked, "V2") < PositionIn(rankOut.ranked, "V1")

\* V1 (rating 5, count 1), V5 (the same values) and V2 (rating 1, count 100)
\* given in that order come out as V2, V1, V5.
C22_Witness ==
  /\ rankOut.done
  /\ rankIn = <<"V1", "V5", "V2">>
  /\ rankOut.ranked = <<"V2", "V1", "V5">>


\* The answers of the searches of cell c for the first t place types, one
\* after the other
RECURSIVE SearchResults(_, _)
SearchResults(c, t) ==
  IF t = 0 THEN <<>>
  ELSE SearchResults(c, t - 1) \o NearbyPlaces(c, t)

\* The list q without the entries whose id occurred earlier in it
FirstOccurrences(q) ==
  LET F[k \in 0..Len(q)] ==
        IF k = 0 THEN <<>>
        ELSE IF \E j \in 1..(k - 1) : q[j] = q[k] THEN F[k - 1]
             ELSE Append(F[k - 1], q[k])
  IN F[Len(q)]

\* What searchAllTypes holds for each cell after each number of place types
DedupedResults ==
  [c \in GridCells |->
     [t \in 0..NumTypes |-> FirstOccurrences(SearchResults(c, t))]]

\* The place types whose search has been issued for the cell in process
TypesSearched ==
  CASE cpc = "search" -> typeIdx - 1
    [] cpc = "searching" -> typeIdx
    [] OTHER -> NumTypes

\* The place types whose answer has been merged into allPlaces
TypesMerged ==
  CASE cpc \in {"search", "searching"} -> typeIdx - 1
    [] OTHER -> NumTypes

\* C23: for the cell in process, searchAllTypes has issued one search per
\* place type so far, in the order of PLACE_TYPES, and once it has returned
\* (all the types searched) its result is the concatenation of the answers
\* without the entries whose id occurred earlier: no id twice, no id of an
\* answer missing, each id at the place of its first occurrence.
C23_OneSearchPerTypeFirstOccurrenceKept ==
  (pc = "processing" /\ cpc \notin {"none", "begin", "between"}) =>
    /\ \A t \in 1..NumTypes :
         Cardinality({i \in 1..Len(callLog) :
                        /\ callLog[i].kind = "search"
                        /\ callLog[i].cell = cell /\ callLog[i].n = t})
           = IF t <= TypesSearched THEN 1 ELSE 0
    /\ \A i, j \in 1..Len(callLog) :
         (/\ i < j
          /\ callLog[i].kind = "search" /\ callLog[i].cell = cell
          /\ callLog[j].kind = "search" /\ callLog[j].cell = cell) =>
           callLog[i].n < callLog[j].n
    /\ allPlaces = DedupedResults[cell][TypesMerged]
    /\ \A i, j \in 1..Len(allPlaces) : allPlaces[i] = allPlaces[j] => i = j
    /\ \A t \in 1..TypesMerged :
         \A k \in 1..Len(NearbyPlaces(cell, t)) :
           \E i \in 1..Len(allPlaces) : allPlaces[i] = NearbyPlaces(cell, t)[k]

\* The searches of cell 1 answered A, B and then B, C: searchAllTypes has
\* returned A, B, C after one search per place type.
C23_Witness ==
  /\ pc = "processing" /\ cpc = "venues" /\ cell = 1
  /\ allPlaces = <<"A", "B", "C">>
  /\ Len(SearchResults(1, NumTypes)) = 4
  /\ Cardinality({i \in 1..Len(callLog) : callLog[i].kind = "search"})
       = NumTypes


(***************************************************************************)
(* SpecBatch: one run of the script from its start to its end, over an     *)
(* empty store or a store with one scored cell.  The failures (requests, slots,   *)
(* store errors, invalid bodies) stay within the budget of failures, a     *)
(* failed request may fail again at every retry.  The requests sent are    *)
(* counted.  The run is not terminated from outside, and every step it can *)
(* take is eventually taken: each await settles.                           *)
(***************************************************************************)
BatchStart ==
  /\ pc = "idle"
  /\ runNo' = runNo + 1
  /\ \E a \in ArgLists : StartRunOn(a)
  /\ cells' = <<>> /\ processed' = 0 /\ failedCells' = <<>>
  /\ detailsCache' = {}
  /\ ResetCell("none")
  /\ vibesAtStart' = cellVibes /\ attemptLog' = <<>> /\ touched' = {} /\ inserted' = {} /\ venuesFailed' = {}
  /\ searchThrew' = {} /\ centroidBad' = {}
  /\ detailCalls' = [v \in PlaceIds |-> 0] /\ detailOks' = [v \in PlaceIds |-> 0]
  /\ callsAfterOk' = [v \in PlaceIds |-> 0]
  /\ cacheHits' = 0 /\ slept' = 0 /\ requests' = 0 /\ slots' = NoSlots
  /\ venuesAtStart' = venues
  /\ callLog' = <<>> /\ prevLog' = prevLog /\ lostScore' = lostScore
  /\ lookupFailed' = FALSE
  /\ UNCHANGED <<storeVars, classifyVars, retryVars, limiterVars, fnVars>>

\* One request of the operation under withRetry is answered.
BatchRequestOk ==
  /\ slots' = SlotsAfterRequest
  /\ pc = "processing" /\ AttemptOk
  /\ requests' = requests + 1
  /\ UNCHANGED <<storeVars, runVars, cellVars, vibesAtStart, venuesAtStart,
                 fatalCause, prevLog, lostScore, lookupFailed, attemptLog, touched, inserted, venuesFailed, callLog,
                 searchThrew, centroidBad, detailCalls, detailOks, callsAfterOk, cacheHits, slept,
                 faults, classifyVars, limiterVars, fnVars>>

\* One request fails; the first failure of an operation is drawn from the
\* fault budget.
BatchRequestFails ==
  /\ slots' = SlotsAfterRequest
  /\ pc = "processing"
  /\ Inject(attempt # 0)
  /\ \E e \in FnErrors : AttemptFails(e)
  /\ requests' = requests + 1
  /\ UNCHANGED <<storeVars, runVars, cellVars, vibesAtStart, venuesAtStart,
                 fatalCause, prevLog, lostScore, lookupFailed, attemptLog, touched, inserted, venuesFailed, callLog,
                 searchThrew, centroidBad, detailCalls, detailOks, callsAfterOk, cacheHits, slept,
                 classifyVars, limiterVars, fnVars>>

\* Every step of the run after its start.
BatchRunNext ==
  \/ LoadCells \/ BeginCell
  \/ SearchCall \/ BatchRequestOk \/ BatchRequestFails \/ RequestBackoffDone
  \/ SearchDone \/ SearchFailed \/ PersistVenues
  \/ DetailsCacheHit \/ DetailsCall \/ DetailsDone \/ DetailsFailed
  \/ AggregateAndScore \/ LlmDone \/ LlmFailed
  \/ VibesDelete \/ VibesInsert
  \/ NextCell \/ Summarize

BatchNext == BatchStart \/ BatchRunNext

SpecBatch == PairInit /\ [][BatchNext]_vars /\ WF_vars(BatchRunNext)

\* The external operations one cell can start: a search per place type, a
\* detail fetch per top venue, one classification
OperationsPerCell == NumTypes + TOP_VENUES_PER_CELL + 1

\* C24: a run that is started ends (with the summary once it has cells to
\* process, at the fatal exit or the empty list otherwise), whatever fails;
\* and at every moment the requests sent are at most maxRetries + 1 per
\* operation started, the operations started at most categories + K + 1 per
\* cell attempted, so the requests of the run are at most
\* cells x (categories + K + 1) x (maxRetries + 1).
C24_RunEndsWithinRequestBound ==
  /\ [](/\ requests <= Len(callLog) * (RETRY_CONFIG.maxRetries + 1)
        /\ Len(callLog) <= processed * OperationsPerCell
        /\ processed <= Len(cells)
        /\ requests
             <= Len(cells) * OperationsPerCell * (RETRY_CONFIG.maxRetries + 1))
  /\ (pc = "loading") ~> (pc \in {"done", "fatal"})
  /\ (pc = "processing") ~> (pc = "done" /\ processed = Len(cells))

\* A run over all the cells has ended with a failed cell: one operation
\* failed at its first request and at each of its retries.
C24_Witness ==
  /\ pc = "done" /\ Len(cells) = NumCells /\ failedCells # <<>>
  /\ requests = Len(callLog) + RETRY_CONFIG.maxRetries


\* C25: the wait before the retry that follows failed attempt a (from 0) is
\* min(D * 2^a, C); the observer has been called once before each wait, with
\* a + 1 and the error of that attempt; a failure that ends the call and a
\* success are followed by neither.  With D = 1000, C = 10000 and N = 3 the
\* waits are 1000, 2000, 4000.
C25_BackoffDoublesToCap ==
  /\ Len(waits) = Len(retryLog)
  /\ \A i \in 1..Len(waits) :
       /\ waits[i] = Min(rOpts.initialDelayMs * 2^(i - 1), rOpts.maxDelayMs)
       /\ retryLog[i] = <<i, errLog[i]>>
  /\ rPc \in {"calling", "sleeping", "returned"} => Len(waits) = Len(errLog)
  /\ rPc = "thrown" => Len(waits) = Len(errLog) - 1
  /\ (rOpts = RETRY_CONFIG /\ rPc = "thrown" /\ calls = 4)
       => waits = <<1000, 2000, 4000>>

\* Under the pipeline's configuration the first attempt and its three
\* retries have failed.
C25_Witness ==
  /\ rOpts = RETRY_CONFIG /\ rPc = "thrown" /\ calls = 4
  /\ Len(retryLog) = 3 /\ retryLog[3] = <<3, errLog[3]>>


\* C26: with one caller the token count is the capacity R until the first
\* acquire, never above R and never below zero; and the first R acquires of
\* the limiter return without a sleep.
C26_TokensWithinCapacity ==
  /\ lastAcq = NoAcquire => tokens = maxTokens * OneToken
  /\ tokens <= maxTokens * OneToken
  /\ tokens >= 0
  /\ acquired < maxTokens => \A c \in callers : lPc[c] = "idle"
  /\ (acquired <= maxTokens /\ \A c \in callers : lPc[c] = "idle")
       => lastAcq.waitMs = 0

\* R acquires were made at once on the fresh limiter: none slept and no
\* token is left.  The next one will sleep.
C26_Witness ==
  /\ acquired = maxTokens /\ now = 0 /\ tokens = 0
  /\ lastAcq.waitMs = 0 /\ \A c \in callers : lPc[c] = "idle"


(***************************************************************************)
(* SpecShared: the limiter of the places client shared by callers whose    *)
(* acquire() calls interleave at the await of the sleep.                   *)
(***************************************************************************)
NumCallers == 2

SharedInit ==
  /\ ClassifyIdle /\ RetryIdle /\ PipelineIdle /\ FnIdle
  /\ RateLimiterNew(RATE_LIMITS.googlePlaces.requestsPerSecond, 1..NumCallers)

SpecShared ==
  /\ SharedInit /\ [][LimiterNext]_vars
  /\ WF_vars(LimiterTimer) /\ WF_vars(LimiterResume)

\* C27: the acquires completed on a limiter shared by several callers are
\* at most R + R * t at every time t (t in milliseconds: R + R * t / 1000).
C27_SharedRateBound ==
  Cardinality(callers) >= 2
    => acquired * OneToken <= maxTokens * (OneToken + now)


(***************************************************************************)
(* SpecTopK: one run over the first city or over the city whose cell holds *)
(* more qualified venues than are fetched for details.                     *)
(***************************************************************************)
TopKStart ==
  /\ pc = "idle"
  /\ runNo' = runNo + 1
  /\ \E a \in {<<"san-francisco">>, <<DenseCity>>} : StartRunOn(a)
  /\ cells' = <<>> /\ processed' = 0 /\ failedCells' = <<>>
  /\ detailsCache' = {}
  /\ ResetCell("none")
  /\ vibesAtStart' = cellVibes /\ attemptLog' = <<>> /\ touched' = {} /\ inserted' = {} /\ venuesFailed' = {}
  /\ searchThrew' = {} /\ centroidBad' = {}
  /\ detailCalls' = [v \in PlaceIds |-> 0] /\ detailOks' = [v \in PlaceIds |-> 0]
  /\ callsAfterOk' = [v \in PlaceIds |-> 0]
  /\ cacheHits' = 0 /\ slept' = 0 /\ requests' = 0 /\ slots' = NoSlots
  /\ venuesAtStart' = venues
  /\ callLog' = <<>> /\ prevLog' = prevLog /\ lostScore' = lostScore
  /\ lookupFailed' = FALSE
  /\ UNCHANGED <<storeVars, classifyVars, retryVars, limiterVars, fnVars>>

TopKNext == TopKStart \/ RunNext

SpecTopK == Init /\ [][TopKNext]_vars

\* The qualified venues among the answers of the searches of a cell
QualifiedFound(c) ==
  {v \in PlaceIds :
     /\ Place[v].userRatingCount >= MIN_REVIEW_COUNT
     /\ \E i \in 1..Len(SearchResults(c, NumTypes)) :
          SearchResults(c, NumTypes)[i] = v}

\* The composite score of a place, in hundredths
PlaceComposite(v) == 70 * Place[v].userRatingCount + 3 * Place[v].rating

\* C28: the venues getPlaceDetails is called for in a cell are at most K,
\* qualified venues of the cell, each one the best ranked of those not yet
\* asked (so they are the head of the ranked list, in rank order), and once
\* the loop is over they are min(K, number of qualified venues) many.
C28_DetailsForTopKInRankOrder ==
  (pc = "processing" /\ cpc \notin {"none", "begin", "between"}) =>
    /\ Len(detailsAsked) <= TOP_VENUES_PER_CELL
    /\ \A i \in 1..Len(detailsAsked) :
         /\ detailsAsked[i] \in QualifiedFound(cell)
         /\ \A j \in 1..Len(detailsAsked) :
              detailsAsked[i] = detailsAsked[j] => i = j
         /\ \A v \in QualifiedFound(cell) :
              (\A j \in 1..i : detailsAsked[j] # v)
                => PlaceComposite(v) <= PlaceComposite(detailsAsked[i])
    /\ cpc \in {"aggregate", "scoring", "vibes_delete", "vibes_insert"}
         => Len(detailsAsked)
              = Min(TOP_VENUES_PER_CELL, Cardinality(QualifiedFound(cell)))

\* The dense cell has six qualified venues: details were asked for five of
\* them, E, G, I, F, D, and not for H.
C28_Witness ==
  /\ pc = "processing" /\ cpc = "aggregate" /\ cell = DenseCell
  /\ Cardinality(QualifiedFound(cell)) = 6
  /\ detailsAsked = <<"E", "G", "I", "F", "D">>


(***************************************************************************)
(* The raw output of the classifier as the regular expression of           *)
(* parseVibeScores reads it: a sequence of pieces, each one a stretch of   *)
(* text without braces, a flat JSON object `{...}`, a lone `{` or a lone   *)
(* `}`.                                                                    *)
(***************************************************************************)
Prose == [kind |-> "prose", fields |-> NoFields]
OpenBrace == [kind |-> "open", fields |-> NoFields]
CloseBrace == [kind |-> "close", fields |-> NoFields]
ObjectText(fields) == [kind |-> "object", fields |-> fields]

\* The position of the first `{` and of the last `}` of a text, in pieces
\* (0: there is none)
FirstOpen(raw) ==
  IF \E i \in 1..Len(raw) : raw[i].kind \in {"object", "open"}
  THEN CHOOSE i \in 1..Len(raw) :
         /\ raw[i].kind \in {"object", "open"}
         /\ \A j \in 1..(i - 1) : raw[j].kind \notin {"object", "open"}
  ELSE 0

LastClose(raw) ==
  IF \E i \in 1..Len(raw) : raw[i].kind \in {"object", "close"}
  THEN CHOOSE i \in 1..Len(raw) :
         /\ raw[i].kind \in {"object", "close"}
         /\ \A j \in (i + 1)..Len(raw) : raw[j].kind \notin {"object", "close"}
  ELSE 0

\* A match that stops at the end of the first complete object of the text,
\* to compare with line 84
jsonMatch_FirstBalanced(raw) ==
  IF \E i \in 1..Len(raw) : raw[i].kind = "object"
  THEN LET i == CHOOSE k \in 1..Len(raw) :
                  /\ raw[k].kind = "object"
                  /\ \A j \in 1..(k - 1) : raw[j].kind # "object"
       IN <<raw[i]>>
  ELSE <<>>

\* parseVibeScores, line 84: text.match(/\{[\s\S]*\}/), greedy, from the
\* first `{` to the last `}` of the text; <<>> for null
jsonMatch(raw) ==
  IF FirstOpen(raw) = 0 \/ LastClose(raw) < FirstOpen(raw) THEN <<>>
  ELSE SubSeq(raw, FirstOpen(raw), LastClose(raw))

\* parseVibeScores, lines 84-90: what the function reads of the raw text.
\* JSON.parse accepts the match when it is one object and nothing else.
MatchedText(raw) ==
  LET m == jsonMatch(raw)
  IN IF m = <<>> THEN PlainText
     ELSE IF Len(m) = 1 /\ m[1].kind = "object" THEN JsonObject(m[1].fields)
     ELSE BrokenJson

(***************************************************************************)
(* SpecExtract: parseVibeScores on one raw output.                         *)
(***************************************************************************)
MaxPieces == 3

\* Two objects: the one of the specification's example (lively 0.5, social
\* 2, nothing else) and one with every dimension at 1
ExampleFields ==
  [d \in 1..Len(VIBE_DIMENSIONS) |->
     CASE d = 1 -> JsonNumber(500)
       [] d = 2 -> JsonNumber(2000)
       [] OTHER -> JsonOther("undefined")]

AllOnes == [d \in 1..Len(VIBE_DIMENSIONS) |-> JsonNumber(1000)]

Pieces ==
  {Prose, OpenBrace, CloseBrace, ObjectText(ExampleFields), ObjectText(AllOnes)}

ExtractInit ==
  /\ ClassifyIdle /\ RetryIdle /\ LimiterIdle /\ PipelineIdle
  /\ AggregateIdle /\ RankIdle
  /\ \E n \in 0..MaxPieces : pRaw \in [1..n -> Pieces]
  /\ pText = PlainText /\ pOut = NoOut

ExtractOutput ==
  /\ ~pOut.done
  /\ pText' = MatchedText(pRaw)
  /\ LET out == ScoringOutcome(MatchedText(pRaw), 1)
     IN pOut' = [done |-> TRUE, failed |-> out.failed, row |-> out.row]
  /\ UNCHANGED <<pRaw, aggVars, rankVars, classifyVars, retryVars,
                 limiterVars, pipelineVars>>

ExtractNext == ExtractOutput

SpecExtract == ExtractInit /\ [][ExtractNext]_vars

\* The scores read from an object
ObjectScores(fields) ==
  [d \in 1..Len(VIBE_DIMENSIONS) |->
     IF fields[d].type = "number" /\ fields[d].value \in 0..1000
     THEN ScoreOf(RoundScore(fields[d].value)) ELSE NullScore]

\* C29: once the raw output is parsed, if the first brace of the output
\* opens a valid object, the scores are those of that object, whatever
\* follows it; if the output holds no brace at all, every score is null.
C29_FirstBalancedObjectParsed ==
  pOut.done =>
    /\ (FirstOpen(pRaw) # 0 /\ pRaw[FirstOpen(pRaw)].kind = "object")
         => pOut.row.scores = ObjectScores(pRaw[FirstOpen(pRaw)].fields)
    /\ (\A i \in 1..Len(pRaw) : pRaw[i].kind = "prose")
         => pOut.row.scores = emptyVibeScores


\* C30: a run with limit L processes at most L cells, the first L of the
\* cells left once the cells scored at its start are subtracted (not
\* subtracted under --force); without --force, when L cells or more are
\* unscored, its list is L cells, all unscored.
C30_LimitTakesFirstUnscored ==
  (pc \in {"processing", "done"} /\ options.limit # 0) =>
    /\ processed <= options.limit
    /\ Len(cells) <= options.limit
    /\ cells = SubSeq(CandidateCells, 1, Min(options.limit, Len(CandidateCells)))
    /\ (~options.force /\ Len(CandidateCells) >= options.limit) =>
         /\ Len(cells) = options.limit
         /\ \A i \in 1..Len(cells) : vibesAtStart[cells[i]] = <<>>

\* C31 as stated: a cell whose centroid text could not be parsed has no record
\* in the failure ledger.
C31_BadCentroidNotEscalated ==
  \A c \in centroidBad :
    \A i \in 1..Len(failedCells) : failedCells[i].cellId # c

\* C31, amended: a cell whose centroid text could not be parsed issues no
\* external call and changes no score record, and it is escalated as a
\* per-cell failure: the ledger holds exactly one record for it, carrying the
\* centroid error, and every record with that error names such a cell.
C31_BadCentroidFailsCellOnly ==
  /\ \A c \in centroidBad :
       /\ c \notin touched
       /\ cellVibes[c] = vibesAtStart[c]
       /\ \E i \in 1..Len(failedCells) :
            /\ failedCells[i] = [cellId |-> c, error |-> "centroid: parse failed"]
            /\ \A k \in 1..Len(failedCells) : failedCells[k].cellId = c => k = i
  /\ \A i \in 1..Len(failedCells) :
       failedCells[i].error = "centroid: parse failed"
         => failedCells[i].cellId \in centroidBad

\* The first cell's centroid did not parse; the run went on and scored the
\* second cell.
C31_Witness ==
  /\ pc = "done" /\ Len(cells) = 2 /\ centroidBad = {cells[1]}
  /\ Len(failedCells) = 1 /\ failedCells[1].cellId = cells[1]
  /\ cells[2] \in touched /\ cellVibes[cells[2]] # vibesAtStart[cells[2]]


\* processCell is between its first and its last statement for the cell
InCell == pc = "processing" /\ cpc \notin {"none", "begin", "between"}

\* The step of processCell the cell in process is at: 1 searchAllTypes,
\* 2 upsertVenues, 3 the getPlaceDetails loop, 4 aggregateReviews,
\* 5 scoreVibes, 6 upsertCellVibes
StepOf ==
  CASE cpc \in {"search", "searching"} -> 1
    [] cpc = "venues" -> 2
    [] cpc \in {"details", "fetching"} -> 3
    [] cpc = "aggregate" -> 4
    [] cpc = "scoring" -> 5
    [] cpc \in {"vibes_delete", "vibes_insert"} -> 6
    [] OTHER -> 0

\* Every place type has been searched for the cell and no search threw
SearchesSucceeded(c) ==
  /\ c \notin searchThrew
  /\ \A t \in 1..NumTypes :
       \E i \in 1..Len(callLog) : callLog[i] = Call("search", c, "", t)

\* C32: within one cell processCell moves through search, venue upsert, then
\* either the null score write (no qualified venue) or detail fetches,
\* aggregation, classification (when there is text) and the score write, in
\* that order; the venue upsert and every later step come after all the
\* category searches of the cell have succeeded, detail fetches come after
\* the venue upsert, and a score record of the cell changes only in the last
\* step, after the classifier call of the cell, if any, has returned.
C32_PerCellOrder ==
  /\ [](InCell =>
          /\ StepOf >= 2 => SearchesSucceeded(cell)
          /\ (\E i \in 1..Len(callLog) :
                callLog[i].cell = cell /\ callLog[i].kind = "details")
               => StepOf >= 3
          /\ LlmCallsFor(cell) > 0 => StepOf >= 5
          /\ StepOf = 6 => rPc = "idle")
  /\ [][/\ (InCell /\ InCell' /\ processed' = processed) =>
             \/ StepOf' = StepOf
             \/ <<StepOf, StepOf'>> \in {<<1, 2>>, <<3, 4>>, <<5, 6>>}
             \/ /\ <<StepOf, StepOf'>> = <<2, 3>>
                /\ topVenues' # <<>>
             \/ /\ <<StepOf, StepOf'>> = <<2, 6>>
                /\ topVenues' = <<>> /\ pendingRow' = EmptyCellRow
             \/ /\ <<StepOf, StepOf'>> = <<4, 5>>
                /\ LlmCallsFor(cell)' = 1
             \/ /\ <<StepOf, StepOf'>> = <<4, 6>>
                /\ LlmCallsFor(cell) = 0 /\ pendingRow'.model_name = Null
        /\ venues' # venues =>
             InCell /\ StepOf = 2 /\ SearchesSucceeded(cell)
        /\ cellVibes' # cellVibes =>
             /\ InCell /\ StepOf = 6 /\ SearchesSucceeded(cell)
             /\ \A c \in GridCells \ {cell} : cellVibes'[c] = cellVibes[c]]_vars

\* A cell went through every step: its venues were upserted after both
\* searches, two details were fetched, the classifier answered, and the score
\* record it wrote names the model.
C32_Witness ==
  /\ pc = "processing" /\ cpc = "between" /\ processed = 1
  /\ SearchesSucceeded(cells[1]) /\ LlmCallsFor(cells[1]) = 1
  /\ \E v \in PlaceIds : venues[v] = cells[1] /\ venuesAtStart[v] # cells[1]
  /\ cellVibes[cells[1]] # vibesAtStart[cells[1]]
  /\ Len(cellVibes[cells[1]]) = 1
  /\ cellVibes[cells[1]][1].model_name = LLM_MODEL


\* The position of a cell in the list of the run (0 when it is not in it)
CellIndex(c) ==
  IF \E k \in 1..Len(cells) : cells[k] = c
  THEN CHOOSE k \in 1..Len(cells) : cells[k] = c
  ELSE 0

\* C33: cells are processed strictly one after another.  The external calls
\* of a run are logged in the order of the cell list, every call is issued
\* for the cell in process, and when a call of the i-th cell is issued the
\* delay between cells has been taken exactly i - 1 times: once after every
\* earlier cell, failed or not.  A run that ends has slept once per cell but
\* the last.
C33_CellsStrictlySequential ==
  /\ [](/\ \A i, j \in 1..Len(callLog) :
             i < j => CellIndex(callLog[i].cell) <= CellIndex(callLog[j].cell)
        /\ pc = "processing" =>
             slept = RATE_LIMITS.betweenCells.delayMs
                       * (IF cpc = "begin" THEN processed
                          ELSE IF processed = 0 THEN 0 ELSE processed - 1)
        /\ (pc = "done" /\ cells # <<>>) =>
             slept = RATE_LIMITS.betweenCells.delayMs * (Len(cells) - 1))
  /\ [][callLog' # callLog =>
          \/ callLog' = <<>>
          \/ /\ InCell' /\ processed' = processed
             /\ Len(callLog') = Len(callLog) + 1
             /\ callLog'[Len(callLog')].cell = cells[processed]
             /\ slept = RATE_LIMITS.betweenCells.delayMs * (processed - 1)]_vars

\* The first of two cells failed; the delay was taken once, after it, the
\* second cell issued its calls and the run ended without another delay.
C33_Witness ==
  /\ pc = "done" /\ Len(cells) = 2
  /\ Len(failedCells) = 1 /\ failedCells[1].cellId = cells[1]
  /\ slept = RATE_LIMITS.betweenCells.delayMs
  /\ \E i \in 1..Len(callLog) : callLog[i].cell = cells[2]


\* The operations of the run that were started on a limiter's client
OpsOn(limiter) ==
  Cardinality({i \in 1..Len(callLog) : LimiterOf(callLog[i].kind) = limiter})

SlotsTaken == slots.placesRateLimiter + slots.openaiRateLimiter

\* C34: every nearbySearch, every getPlaceDetails that misses the cache and
\* every scoreVibes takes exactly one slot of its client's limiter, when the
\* operation starts and before its first request; a request sent by
\* withRetry, the first or a re-issued one, takes none.  So an operation
\* sends up to maxRetries + 1 requests on one slot, and the requests of a run
\* exceed the slots taken by at most maxRetries per operation.
C34_OneSlotPerOperation ==
  /\ [](/\ \A l \in DOMAIN slots : slots[l] = OpsOn(l)
        /\ rPc # "idle" =>
             /\ slots[LimiterOf(caller)] >= 1
             /\ calls <= RETRY_CONFIG.maxRetries + 1
        /\ requests >= SlotsTaken - (IF rPc \in {"idle", "returned", "thrown"}
                                     THEN 0 ELSE 1)
        /\ requests <= SlotsTaken + RETRY_CONFIG.maxRetries * Len(callLog))
  /\ [][/\ slots' # slots =>
             \/ slots' = NoSlots
             \/ /\ rPc = "idle" /\ rPc' = "calling" /\ calls' = 0
                /\ slots' = [slots EXCEPT ![LimiterOf(caller')] = @ + 1]
                /\ Len(callLog') = Len(callLog) + 1
                /\ requests' = requests
        /\ requests' # requests => slots' = slots \/ slots' = NoSlots]_vars

\* The classifier operation of a cell has sent maxRetries + 1 requests on the
\* one slot it took: the requests of the run exceed its slots by maxRetries.
C34_Witness ==
  /\ pc = "processing" /\ caller = "llm"
  /\ calls = RETRY_CONFIG.maxRetries + 1
  /\ slots.openaiRateLimiter = 1
  /\ requests = SlotsTaken + RETRY_CONFIG.maxRetries


\* C35: the cache of getPlaceDetails holds an identifier only if a fetch of
\* it was issued and succeeded earlier in the run; it only grows, by the
\* identifier of a fetch that has just returned its record (a failed fetch
\* adds nothing); and a call that finds the identifier in the cache hands the
\* cached record to processCell without taking a limiter slot, without
\* starting an operation and without sending a request.
C35_CacheHoldsSuccessfulFetches ==
  /\ [](\A v \in detailsCache :
          /\ detailOks[v] >= 1
          /\ \E i \in 1..Len(callLog) :
               callLog[i].kind = "details" /\ callLog[i].place = v)
  /\ [][/\ detailsCache' = {} \/ detailsCache \subseteq detailsCache'
        /\ (detailsCache' # detailsCache /\ detailsCache' # {}) =>
             /\ cpc = "fetching" /\ rPc = "returned" /\ caller = "details"
             /\ detailsCache' = detailsCache \cup {topVenues[detIdx]}
             /\ detailOks'[topVenues[detIdx]] = detailOks[topVenues[detIdx]] + 1
        /\ cacheHits' = cacheHits + 1 =>
             /\ topVenues[detIdx] \in detailsCache
             /\ placeDetails' = Append(placeDetails, topVenues[detIdx])
             /\ detailsCache' = detailsCache
             /\ slots' = slots /\ requests' = requests /\ callLog' = callLog
             /\ UNCHANGED retryVars]_vars

\* The second cell was handed place B from the cache: one fetch of B in the
\* run, and as many slots taken as operations started.
C35_Witness ==
  /\ pc = "processing" /\ processed = 2 /\ cacheHits = 1
  /\ "B" \in detailsCache /\ detailCalls["B"] = 1
  /\ \E i \in 1..Len(placeDetails) : placeDetails[i] = "B"
  /\ slots.placesRateLimiter = OpsOn("placesRateLimiter")


\* The cells of the run whose processCell has returned or thrown
CompletedCells ==
  {cells[k] : k \in 1..(IF pc = "processing" /\ cpc \notin {"between", "begin"}
                        THEN processed - 1 ELSE processed)}

\* The two counts of the summary (main, lines 399-400)
SucceededCount == processed - Len(failedCells)

FailedCount == Len(failedCells)

\* C36: in a run that is not a dry run, a cell whose processing is over is
\* absent from the failure ledger exactly when the insert of its score record
\* succeeded in this run, and the record it holds last is the one inserted;
\* a cell in the ledger had no record inserted by this run; the ledger names
\* only processed cells, each once, so the succeeded count of the summary is
\* the number of processed cells that are not in the ledger, and succeeded
\* plus failed is the number of cells processed.
C36_SucceededIffInserted ==
  /\ inserted \subseteq CompletedCells
  /\ FailedCount = Cardinality({c \in CompletedCells : Failed(c)})
  /\ (pc = "done" \/ (pc = "processing" /\ cpc \in {"between", "begin"})) =>
       /\ SucceededCount + FailedCount = processed
       /\ SucceededCount = Cardinality({c \in CompletedCells : ~Failed(c)})
  /\ (runNo > 0 /\ ~options.dryRun) =>
       \A c \in CompletedCells :
         /\ ~Failed(c) <=> c \in inserted
         /\ c \in inserted => cellVibes[c] # <<>>
  /\ (runNo > 0 /\ options.dryRun) => inserted = {} /\ venuesFailed = {}

\* A run that is not a dry run ended with one cell in the ledger because its
\* insert failed, and one cell whose insert succeeded.
C36_Witness ==
  /\ pc = "done" /\ ~options.dryRun /\ Len(cells) = 2
  /\ SucceededCount = 1 /\ FailedCount = 1
  /\ failedCells[1].error = "insert: store error"
  /\ Cardinality(inserted) = 1 /\ failedCells[1].cellId \notin inserted


\* C37: a cell whose venue upsert returned a store error is not failed by it:
\* the step that receives the error leaves the ledger and the venues table as
\* they were and moves the cell on to its detail fetches; no venues row is
\* written for the cell in the run; a ledger record of the cell, if any, comes
\* from a later step (classifier or score insert); and once the cell is over
\* and is not in the ledger, its score record has been inserted.
C37_UpsertErrorOnlyLogged ==
  /\ [](\A c \in venuesFailed :
          /\ \A v \in PlaceIds : venues[v] = c => venuesAtStart[v] = c
          /\ \A i \in 1..Len(failedCells) :
               failedCells[i].cellId = c =>
                 failedCells[i].error \in {"llm: request failed",
                                           "llm: parse failed",
                                           "insert: store error"}
          /\ (c \in CompletedCells /\ ~Failed(c)) =>
               c \in inserted /\ cellVibes[c] # <<>>)
  /\ [][(venuesFailed' # venuesFailed /\ venuesFailed' # {}) =>
          /\ venuesFailed' = venuesFailed \cup {cell}
          /\ ~options.dryRun
          /\ pc' = "processing" /\ cpc' = "details"
          /\ failedCells' = failedCells /\ venues' = venues]_vars

\* The venue upsert of the first cell failed; the cell was then scored by the
\* classifier, is not in the ledger, and none of its venues has a row.
C37_Witness ==
  /\ pc = "processing" /\ cpc = "between" /\ processed = 1
  /\ venuesFailed = {cells[1]} /\ failedCells = <<>>
  /\ rankedVenues = <<>> /\ cells[1] \in inserted
  /\ LlmCallsFor(cells[1]) = 1
  /\ cellVibes[cells[1]][Len(cellVibes[cells[1]])].model_name = LLM_MODEL
  /\ \A v \in PlaceIds : venues[v] # cells[1]


\* The reviews with a non-blank text in the details of a list of places
RECURSIVE SnippetsSeen(_)
SnippetsSeen(ids) ==
  IF ids = <<>> THEN 0
  ELSE Cardinality({j \in 1..Len(Reviews[Head(ids)]) : Reviews[Head(ids)][j] > 0})
       + SnippetsSeen(Tail(ids))

\* C38: the score row of a cell names the model exactly when the classifier
\* was invoked for the cell in this run, both in the row about to be written
\* and in the record a successful insert left in the store.  When the cell
\* has top venues and the aggregated text is empty, the classifier is not
\* invoked and the row is all-null, names no model and counts the non-empty
\* snippets of the details that were fetched.
C38_ModelNamedIffClassifierInvoked ==
  /\ (pc = "processing" /\ cpc \in {"vibes_delete", "vibes_insert"}) =>
       /\ pendingRow.model_name \in {Null, LLM_MODEL}
       /\ pendingRow.model_name # Null <=> LlmCallsFor(cell) = 1
       /\ (topVenues # <<>> /\ ReviewsOf(placeDetails).textLen = 0) =>
            /\ LlmCallsFor(cell) = 0
            /\ pendingRow.scores = emptyVibeScores
            /\ pendingRow.model_name = Null
            /\ pendingRow.source_review_count = SnippetsSeen(placeDetails)
       /\ ReviewsOf(placeDetails).textLen > 0 => LlmCallsFor(cell) = 1
  /\ \A c \in inserted :
       /\ cellVibes[c] # <<>>
       /\ cellVibes[c][Len(cellVibes[c])].model_name # Null
            <=> LlmCallsFor(c) = 1

\* The run over the second city has ended: the dense cell was classified and
\* its record names the model; the cell whose only review is longer than the
\* budget and the cell whose reviews are blank were not classified, and their
\* records are all-null without a model, with review counts 1 and 0.
C38_Witness ==
  /\ pc = "done" /\ cells = <<DenseCell, LongCell, BlankCell>>
  /\ inserted = {DenseCell, LongCell, BlankCell}
  /\ LlmCallsFor(DenseCell) = 1 /\ cellVibes[DenseCell][1].model_name = LLM_MODEL
  /\ detailOks["K"] = 1 /\ LlmCallsFor(LongCell) = 0
  /\ cellVibes[LongCell] = <<NoTextRow(1)>>
  /\ detailOks["L"] = 1 /\ LlmCallsFor(BlankCell) = 0
  /\ cellVibes[BlankCell] = <<NoTextRow(0)>>


(***************************************************************************)
(* SpecReplace: runs that write the store, forced or not, over a store in  *)
(* which the first cell of the area already holds a score record.          *)
(***************************************************************************)
ReplaceArgLists ==
  {ArgsFor("san-francisco", f, FALSE, l) : f \in BOOLEAN, l \in Limits}

ReplaceInit ==
  /\ ClassifyIdle /\ RetryIdle /\ LimiterIdle /\ FnIdle
  /\ PipelineIdleOn(StoreAfterFirstCell.venues, StoreAfterFirstCell.cellVibes)

\* main, lines 342-360
ReplaceStart ==
  /\ pc \in {"idle", "done", "fatal", "killed"}
  /\ runNo < MaxRuns
  /\ runNo' = runNo + 1
  /\ \E a \in ReplaceArgLists : StartRunOn(a)
  /\ cells' = <<>> /\ processed' = 0 /\ failedCells' = <<>>
  /\ detailsCache' = {}
  /\ ResetCell("none")
  /\ vibesAtStart' = cellVibes /\ attemptLog' = <<>> /\ touched' = {}
  /\ inserted' = {} /\ venuesFailed' = {}
  /\ searchThrew' = {} /\ centroidBad' = {}
  /\ detailCalls' = [v \in PlaceIds |-> 0] /\ detailOks' = [v \in PlaceIds |-> 0]
  /\ callsAfterOk' = [v \in PlaceIds |-> 0]
  /\ cacheHits' = 0 /\ slept' = 0 /\ requests' = 0 /\ slots' = NoSlots
  /\ venuesAtStart' = venues
  /\ callLog' = <<>> /\ prevLog' = prevLog /\ lostScore' = lostScore
  /\ lookupFailed' = FALSE
  /\ UNCHANGED <<storeVars, classifyVars, retryVars, limiterVars, fnVars>>

ReplaceNext == ReplaceStart \/ RunNext

SpecReplace == ReplaceInit /\ [][ReplaceNext]_vars

\* The position of a cell in the list get_grid_centroids returns for the city
CityIndex(c) ==
  CHOOSE k \in 1..Len(CityCells(options.citySlug)) :
    CityCells(options.citySlug)[k] = c

\* C39: upsertCellVibes replaces a score record by a delete and a separate
\* insert.  A cell whose insert failed after the delete had removed its
\* record holds no record (the prior one is not put back) and, in the run in
\* which that happened, is in the failure ledger with the insert's error and
\* has nothing inserted.  A run without --force selects every cell of its
\* city that holds no record when it starts, so also every cell that lost
\* its record in an earlier run: the cell is in the run's list, unless the
\* limit has filled the list with cells that come before it.
C39_FailedInsertLosesPriorScore ==
  /\ \A c \in lostScore :
       /\ cellVibes[c] = <<>>
       /\ vibesAtStart[c] # <<>> =>
            /\ c \notin inserted
            /\ \E i \in 1..Len(failedCells) :
                 failedCells[i] = [cellId |-> c, error |-> "insert: store error"]
  /\ (pc \in {"processing", "done"} /\ ~options.force) =>
       \A k \in 1..Len(CityCells(options.citySlug)) :
         LET c == CityCells(options.citySlug)[k]
         IN vibesAtStart[c] = <<>> =>
              \/ \E j \in 1..Len(cells) : cells[j] = c
              \/ /\ options.limit # 0 /\ Len(cells) = options.limit
                 /\ \A j \in 1..Len(cells) : CityIndex(cells[j]) < k

\* The first run was forced: it deleted the record of the first cell and its
\* insert failed.  The second run, not forced, has selected the cell again,
\* which still holds no record.
C39_Witness ==
  /\ runNo = 2 /\ ~options.force /\ pc = "processing" /\ cpc = "search"
  /\ lostScore = {AreaCells[1]} /\ cells[processed] = AreaCells[1]
  /\ vibesAtStart[AreaCells[1]] = <<>> /\ cellVibes[AreaCells[1]] = <<>>


=============================================================================
